---------------------------- MODULE Spec2Model ----------------------------
(***************************************************************************)
(* Model of the DOGE funding-carry bot: the position ledger (StateDB), the *)
(* executors (BorrowMgr, SpotExec, PerpExec), the monitors, the rebalancer,*)
(* the private WebSocket stream of OKXGateway and the process start-up.    *)
(*                                                                         *)
(* Specifications:                                                         *)
(*   SpecTasks  - the four monitors and the rebalancer as asyncio tasks,   *)
(*                interleaved at every await, acting on the ledger         *)
(*   SpecSeq    - the same tasks, one loop iteration at a time             *)
(*   SpecStream - one ws_private_stream call alone on the gateway          *)
(*   SpecWS     - the three monitors' streams sharing the gateway's socket *)
(*   SpecMain   - runner.main: construction, init_positions, task launch   *)
(*   SpecExec   - the executor methods called one at a time, each with     *)
(*                any quantity                                             *)
(*   SpecDb     - StateDB's calls by concurrent callers through its lock,  *)
(*                with restarts of the process                             *)
(*   SpecDbFair - SpecDb with every caller and the event loop scheduled    *)
(*   SpecSign   - _sign called by _headers, by _ws_login and directly      *)
(*   SpecReb    - Rebalancer.run alone, on any row its read can return     *)
(* Quantities are integers: DOGE units, USDT units, funding rate in 1e-6,  *)
(* APR in 1e-4, risk ratio in 1e-2, prices in 1e-4, delays in seconds.     *)
(***************************************************************************)
EXTENDS Integers, Sequences, FiniteSets, TLC

VARIABLES
    \* ---- ledger and tasks (SpecTasks, SpecSeq)
    ledger,      \* the bot_state row: [spot, perp, loan]
    ideal,       \* ghost: the ledger had every committed effect been applied atomically
    pc,          \* per task: position in its code
    ret,         \* per task: where the executor call in progress returns to
    exl,         \* per task: locals of the executor call in progress
    cal,         \* per task: locals of the calling loop (its input, what it read)
    res,         \* per task: outcome of the last executor call ("True","False","raise")
    said,        \* per task: the last alert it sent (tg.send) in this iteration
    budget,      \* iterations (SpecExec: calls) the environment may still start
    exOpen,      \* ghost: the exchange holds an open short (accepted short, not yet closed)
    redundantClose, \* ghost: the close endpoint was called with no open short
    \* ---- the gateway's private WebSocket (SpecStream, SpecWS)
    ws,          \* OKXGateway._ws: 0 is None, n > 0 the n-th socket connected
    wsLogged,    \* OKXGateway._ws_logged
    open,        \* the sockets whose .open is true
    subs,        \* per socket connected so far: the channels subscribed on it
    wanted,      \* ghost: the channels some stream has subscribed to
    acked,       \* ghost: the sockets on which the exchange accepted a login
    dropped,     \* ghost: the channels of which a data frame was read and not yielded
    st,          \* per stream consumer: the I/O its ws_private_stream call awaits, and its locals
    \* ---- the store's gate and file (SpecDb)
    locked,      \* StateDB._lock: it is held
    waiters,     \* StateDB._lock: the callers waiting for it, in order of arrival
    eqref,       \* the equity_ref row: [eq, ts]
    stored,      \* the database file holds the tables and their rows
    \* ---- the signer (SpecSign)
    clock,       \* the wall clock that _timestamp reads, in milliseconds
    sigs         \* ghost: the calls of _sign made so far: caller, inputs, result

taskVars == <<ledger, ideal, pc, ret, exl, cal, res, said, budget, exOpen, redundantClose>>
wsVars == <<ws, wsLogged, open, subs, wanted, acked, dropped, st>>
dbVars == <<locked, waiters, eqref, stored>>
signVars == <<clock, sigs>>
vars == <<taskVars, wsVars, dbVars, signVars>>

Abs(x) == IF x < 0 THEN -x ELSE x
Min(a, b) == IF a < b THEN a ELSE b
Upd(f, t, v) == [f EXCEPT ![t] = v]

-----------------------------------------------------------------------------
(* Bounds of the model *)

\* iterations (stream messages, poll cycles, rebalance cycles) started in a run
MaxCycles == 2
\* sockets a run of one stream may connect
MaxSockets == 8
\* sockets a run of the three streams may connect
MaxSharedSockets == 2

-----------------------------------------------------------------------------
(* Program constants *)

\* Monitors.flip_thr = 0.00001, in units of 1e-6
FLIP_THR == 10
\* Monitors.apr_exit = 0.08, in units of 1e-4
APR_EXIT == 800
\* LIQ_THRESHOLD = 0.002, in units of 1e-3
LIQ_THRESHOLD == 2
\* liq_loop: rr >= 0.80, in units of 1e-2
RR_CUT == 80
\* risk_loop: rr >= 0.9, in units of 1e-2
RR_EMERGENCY == 90
\* liq_loop: cut_qty = spot_qty * 0.30, in units of 1e-2
CUT_PCT == 30
\* Rebalancer.thr = 0.01, in units of 1e-2
REB_THR == 1

PAIR_SPOT == "DOGE-USDT"
PAIR_SWAP == "DOGE-USDT-SWAP"

-----------------------------------------------------------------------------
(* Tasks, inputs *)

Monitors == {"funding", "risk", "apr", "liq"}
Tasks == Monitors \cup {"reb"}

\* the three answers of a mutating REST call: HTTP 200 with code "0" and item
\* sCode "0"; HTTP 200 with an application-level rejection; a raised
\* HTTPStatusError / network error
PostOutcomes == {"ok", "rej", "http"}

\* ledger rows the tasks can start from: init_positions returned, so spot > 0
\* and perp < 0
Row(s, p, l) == [spot |-> s, perp |-> p, loan |-> l]
InitLedgers == {Row(1000, -1000, 500), Row(1000, -1100, 500)}
\* the same and ledgers with excess spot, above the rebalancing threshold and
\* exactly at it, for the tasks run one at a time
InitLedgersSeq == InitLedgers \cup {Row(1000, -950, 500), Row(1000, -990, 500)}

\* funding-rate messages: the rate (1e-6) below, at and above flip_thr, and a
\* message for another instrument
FundingMsgs == {[inst |-> PAIR_SWAP, rate |-> -5], [inst |-> PAIR_SWAP, rate |-> 10],
                [inst |-> PAIR_SWAP, rate |-> 11], [inst |-> "BTC-USDT-SWAP", rate |-> -5]}
\* max-loan polls: the read raises, or the interest rate (1e-4) is below, at
\* or above apr_exit
AprPolls == {[ok |-> FALSE, apr |-> 0], [ok |-> TRUE, apr |-> 700],
             [ok |-> TRUE, apr |-> 800], [ok |-> TRUE, apr |-> 900]}
\* positions messages, prices in 1e-4 USDT: gap 0.1%, gap 10%, no liquidation
\* price, another instrument, the long side
LiqMsgs == {[inst |-> PAIR_SWAP, side |-> "short", liq |-> 999, mark |-> 998],
            [inst |-> PAIR_SWAP, side |-> "short", liq |-> 1100, mark |-> 1000],
            [inst |-> PAIR_SWAP, side |-> "short", liq |-> 0, mark |-> 1000],
            [inst |-> "BTC-USDT-SWAP", side |-> "short", liq |-> 999, mark |-> 998],
            [inst |-> PAIR_SWAP, side |-> "long", liq |-> 999, mark |-> 998]}
\* risk ratios (1e-2) of account messages and of the risk-state read
RiskRatios == {79, 80, 95}
RiskMsgs == {[rr |-> r] : r \in {85, 90, 95}}
\* the rebalancer's cycle has no input
RebTicks == {[tick |-> 0]}

\* pre: what the pre-check of the call in progress found
NoLoc == [qty |-> 0, spot |-> 0, perp |-> 0, loan |-> 0, out |-> "none", pre |-> "none"]
NoCal == [in |-> <<>>, spot |-> 0, imb |-> 0]

-----------------------------------------------------------------------------
(* StateDB: get and save, each one critical section of the store's lock *)

DbGet == ledger

DbSave(s, p, l, eff) ==
    /\ ledger' = Row(s, p, l)
    /\ ideal' = eff

noSave == UNCHANGED <<ledger, ideal>>

-----------------------------------------------------------------------------
(* Calling convention of the executor methods *)

Invoke(t, proc, q, k, alert) ==
    /\ pc' = Upd(pc, t, proc)
    /\ ret' = Upd(ret, t, k)
    /\ exl' = Upd(exl, t, [NoLoc EXCEPT !.qty = q])
    /\ said' = Upd(said, t, alert)

Return(t, r, alert) ==
    /\ pc' = Upd(pc, t, ret[t])
    /\ ret' = Upd(ret, t, "none")
    /\ exl' = Upd(exl, t, NoLoc)
    /\ res' = Upd(res, t, r)
    /\ said' = Upd(said, t, alert)

Step(t, l, loc, alert) ==
    /\ pc' = Upd(pc, t, l)
    /\ exl' = Upd(exl, t, loc)
    /\ said' = Upd(said, t, alert)
    /\ UNCHANGED <<ret, res>>

\* the locals after the ledger read that precedes a save
Read(loc, o) == [loc EXCEPT !.spot = DbGet.spot, !.perp = DbGet.perp,
                            !.loan = DbGet.loan, !.out = o]

-----------------------------------------------------------------------------
(* PerpExec.close_all *)

\* variant: the no-op guard without the zero case
CloseNoopStrict(perp_qty) == perp_qty > 0

\* perp.py:100  if perp_qty >= 0: nothing to close
CloseNoop(perp_qty) == perp_qty >= 0

\* perp.py:105  not res or res[0].get("sCode") != "0"
CloseRejected(o) == o # "ok"

\* the ledger read that decides whether there is a short to close
CloseAllGet(t) ==
    /\ pc[t] = "close_get"
    /\ IF CloseNoop(DbGet.perp)
       THEN Return(t, "True", "No short position to close")
       ELSE Step(t, "close_post", exl[t], said[t])
    /\ noSave
    /\ UNCHANGED <<cal, budget, exOpen, redundantClose>>
    /\ UNCHANGED <<wsVars, dbVars, signVars>>

\* the close-position call and, when it is accepted, the ledger read
CloseAllPost(t) ==
    /\ pc[t] = "close_post"
    /\ \E o \in PostOutcomes :
         /\ redundantClose' = (redundantClose \/ ~exOpen)
         /\ exOpen' = IF o = "ok" THEN FALSE ELSE exOpen
         /\ IF o = "http"
            THEN Return(t, "raise", "Perp CLOSE rejected")
            ELSE IF CloseRejected(o)
            THEN Return(t, "raise", "Perp close failed")
            ELSE Step(t, "close_save", Read(exl[t], o), "Perp short closed")
    /\ noSave
    /\ UNCHANGED <<cal, budget>>
    /\ UNCHANGED <<wsVars, dbVars, signVars>>

CloseAllSave(t) ==
    /\ pc[t] = "close_save"
    /\ DbSave(exl[t].spot, 0, exl[t].loan, [ideal EXCEPT !.perp = 0])
    /\ Return(t, "True", said[t])
    /\ UNCHANGED <<cal, budget, exOpen, redundantClose>>
    /\ UNCHANGED <<wsVars, dbVars, signVars>>

-----------------------------------------------------------------------------
(* OKXGateway.post: it raises on an HTTP error only; an application-level *)
(* rejection (code other than "0") is logged and the data returned        *)

PostRaises(o) == o = "http"

(* BorrowMgr.repay_all: the repay call and, unless it raised, the ledger read *)

RepayAllPost(t) ==
    /\ pc[t] = "repay_post"
    /\ \E o \in PostOutcomes :
         IF PostRaises(o)
         THEN Return(t, "False", "Repay failed")
         ELSE Step(t, "repay_save", Read(exl[t], o), said[t])
    /\ noSave
    /\ UNCHANGED <<cal, budget, exOpen, redundantClose>>
    /\ UNCHANGED <<wsVars, dbVars, signVars>>

RepayAllSave(t) ==
    /\ pc[t] = "repay_save"
    /\ DbSave(exl[t].spot, exl[t].perp, 0, [ideal EXCEPT !.loan = 0])
    /\ Return(t, "True", "Loan fully repaid")
    /\ UNCHANGED <<cal, budget, exOpen, redundantClose>>
    /\ UNCHANGED <<wsVars, dbVars, signVars>>

-----------------------------------------------------------------------------
(* OKXGateway.post_order: raises unless the order's item status is the *)
(* success code                                                          *)

\* variant: only an HTTP error raises, as in OKXGateway.post
PostOrderLax(o) == o = "http"

\* gateway.py:195  not data or data[0].get("sCode") != "0", and the HTTP error
\* re-raised at gateway.py:192-194
PostOrderRaises(o) == o # "ok"

\* executors: a quantity that is not positive is refused
InvalidQty(qty) == qty <= 0

\* check_margin_requirements: no data (None), sufficient, insufficient
MarginChecks == {"none", "ok", "low"}

(* PerpExec.short *)

\* perp.py:62  if not margin_check["margin_sufficient"]
MarginLow(m) == m = "low"

\* the quantity check and the margin pre-check (perp.py:52-67)
ShortCheck(t) ==
    /\ pc[t] = "short_check"
    /\ IF InvalidQty(exl[t].qty)
       THEN Return(t, "raise", said[t])
       ELSE \E m \in MarginChecks :
              IF MarginLow(m)
              THEN Return(t, "raise", "Insufficient margin for short")
              ELSE Step(t, "short_post", [exl[t] EXCEPT !.pre = m], said[t])
    /\ noSave
    /\ UNCHANGED <<cal, budget, exOpen, redundantClose>>
    /\ UNCHANGED <<wsVars, dbVars, signVars>>

\* the order and, when it is accepted, the ledger read (perp.py:69-87)
ShortPost(t) ==
    /\ pc[t] = "short_post"
    /\ \E o \in PostOutcomes :
         IF PostOrderRaises(o)
         THEN /\ Return(t, "raise", "Perp short failed")
              /\ UNCHANGED exOpen
         ELSE /\ Step(t, "short_save", Read(exl[t], o), "Perp SHORT")
              /\ exOpen' = TRUE
    /\ noSave
    /\ UNCHANGED <<cal, budget, redundantClose>>
    /\ UNCHANGED <<wsVars, dbVars, signVars>>

\* variant: the quantity added to the position with the wrong sign
ShortedUp(perp, qty) == perp + qty

\* perp.py:88  perp - float(qty)
Shorted(perp, qty) == perp - qty

ShortSave(t) ==
    /\ pc[t] = "short_save"
    /\ DbSave(exl[t].spot, Shorted(exl[t].perp, exl[t].qty), exl[t].loan,
              [ideal EXCEPT !.perp = @ - exl[t].qty])
    /\ Return(t, "True", said[t])
    /\ UNCHANGED <<cal, budget, exOpen, redundantClose>>
    /\ UNCHANGED <<wsVars, dbVars, signVars>>

(* SpotExec.sell *)

\* spot.py:139-144  the quantity is cut to the ledger's spot quantity
SellQty(qty, spot_qty) == IF qty > spot_qty THEN spot_qty ELSE qty

\* the quantity check and the ledger read that caps the quantity
SellGet(t) ==
    /\ pc[t] = "sell_get"
    /\ LET q == SellQty(exl[t].qty, DbGet.spot) IN
         IF InvalidQty(exl[t].qty)
         THEN Return(t, "raise", said[t])
         ELSE IF InvalidQty(q)
         THEN Return(t, "raise", "Trying to sell more than the position")
         ELSE Step(t, "sell_post", [exl[t] EXCEPT !.qty = q], said[t])
    /\ noSave
    /\ UNCHANGED <<cal, budget, exOpen, redundantClose>>
    /\ UNCHANGED <<wsVars, dbVars, signVars>>

\* the order, the ticker read for the report (inside the same try), the
\* ledger read
SellPost(t) ==
    /\ pc[t] = "sell_post"
    /\ \E o \in PostOutcomes, tickerOk \in BOOLEAN :
         IF PostOrderRaises(o) \/ ~tickerOk
         THEN Return(t, "raise", "Spot sell failed")
         ELSE Step(t, "sell_save", Read(exl[t], o), "Spot SELL")
    /\ noSave
    /\ UNCHANGED <<cal, budget, exOpen, redundantClose>>
    /\ UNCHANGED <<wsVars, dbVars, signVars>>

SellSave(t) ==
    /\ pc[t] = "sell_save"
    /\ DbSave(exl[t].spot - exl[t].qty, exl[t].perp, exl[t].loan,
              [ideal EXCEPT !.spot = @ - exl[t].qty])
    /\ Return(t, "True", said[t])
    /\ UNCHANGED <<cal, budget, exOpen, redundantClose>>
    /\ UNCHANGED <<wsVars, dbVars, signVars>>

-----------------------------------------------------------------------------
(* Monitors and rebalancer: an iteration begins when the stream yields a *)
(* message, the poll wakes up or the cycle's sleep ends                   *)

Inputs(t) ==
    CASE t = "funding" -> FundingMsgs
      [] t = "risk" -> RiskMsgs
      [] t = "apr" -> AprPolls
      [] t = "liq" -> LiqMsgs
      [] t = "reb" -> RebTicks

Busy(t) == pc[t] \notin {"wait", "crashed"}

Wake(t) ==
    /\ pc[t] = "wait"
    /\ budget > 0
    /\ budget' = budget - 1
    /\ pc' = Upd(pc, t, "body")
    /\ \E m \in Inputs(t) : cal' = Upd(cal, t, [NoCal EXCEPT !.in = m])
    /\ UNCHANGED <<ledger, ideal, exOpen, redundantClose, res, ret, exl, said>>
    /\ UNCHANGED <<wsVars, dbVars, signVars>>

\* the loop body calls an executor method
Then(t, proc, q, k, alert) ==
    /\ Invoke(t, proc, q, k, alert)
    /\ UNCHANGED <<res, cal>>

\* the loop body goes on without a call
Goto(t, l, alert) ==
    /\ pc' = Upd(pc, t, l)
    /\ said' = Upd(said, t, alert)
    /\ UNCHANGED <<ret, exl, res, cal>>

\* the loop body is over: the task waits for the next message or cycle
Finish(t) ==
    /\ pc' = Upd(pc, t, "wait")
    /\ said' = Upd(said, t, "")
    /\ res' = Upd(res, t, "none")
    /\ cal' = Upd(cal, t, NoCal)
    /\ UNCHANGED <<ret, exl>>

\* an exception leaves the task's coroutine: the task is over
Crash(t) ==
    /\ pc' = Upd(pc, t, "crashed")
    /\ said' = Upd(said, t, "")
    /\ cal' = Upd(cal, t, NoCal)
    /\ UNCHANGED <<ret, exl, res>>

quiet == UNCHANGED <<ledger, ideal, budget, exOpen, redundantClose>>

(* Monitors.funding_loop *)

\* variant: the trigger with a strict comparison
FlipStrict(next_rate) == next_rate < FLIP_THR

\* monitors.py:37  next_rate <= self.flip_thr
FlipTriggered(next_rate) == next_rate <= FLIP_THR

FundingMsg ==
    /\ pc["funding"] = "body"
    /\ LET d == cal["funding"].in IN
         IF d.inst # PAIR_SWAP
         THEN Finish("funding")
         ELSE IF FlipTriggered(d.rate)
         THEN Then("funding", "close_get", 0, "fund_after_close", "Funding flip")
         ELSE Finish("funding")
    /\ quiet
    /\ UNCHANGED <<wsVars, dbVars, signVars>>

FundingAfterClose ==
    /\ pc["funding"] = "fund_after_close"
    /\ IF res["funding"] = "raise"
       THEN Crash("funding")
       ELSE Then("funding", "repay_post", 0, "fund_after_repay", said["funding"])
    /\ quiet
    /\ UNCHANGED <<wsVars, dbVars, signVars>>

FundingAfterRepay ==
    /\ pc["funding"] = "fund_after_repay"
    /\ Finish("funding")
    /\ quiet
    /\ UNCHANGED <<wsVars, dbVars, signVars>>

(* Monitors.risk_loop *)

\* variant: the emergency test with a strict comparison
RiskEmergencyStrict(rr) == rr > RR_EMERGENCY

\* monitors.py:47
RiskEmergency(rr) == rr >= RR_EMERGENCY

RiskMsg ==
    /\ pc["risk"] = "body"
    /\ IF RiskEmergency(cal["risk"].in.rr)
       THEN Goto("risk", "risk_alerted", "EMERGENCY riskRatio")
       ELSE Finish("risk")
    /\ quiet
    /\ UNCHANGED <<wsVars, dbVars, signVars>>

RiskAlerted ==
    /\ pc["risk"] = "risk_alerted"
    /\ Finish("risk")
    /\ quiet
    /\ UNCHANGED <<wsVars, dbVars, signVars>>

(* Monitors.apr_poll *)

\* monitors.py:55  apr >= self.apr_exit
AprTriggered(apr) == apr >= APR_EXIT

AprPoll ==
    /\ pc["apr"] = "body"
    /\ LET d == cal["apr"].in IN
         IF ~d.ok
         THEN Crash("apr")
         ELSE IF AprTriggered(d.apr)
         THEN Then("apr", "close_get", 0, "apr_after_close", "APR exit carry")
         ELSE Finish("apr")
    /\ quiet
    /\ UNCHANGED <<wsVars, dbVars, signVars>>

AprAfterClose ==
    /\ pc["apr"] = "apr_after_close"
    /\ IF res["apr"] = "raise"
       THEN Crash("apr")
       ELSE Then("apr", "repay_post", 0, "apr_after_repay", said["apr"])
    /\ quiet
    /\ UNCHANGED <<wsVars, dbVars, signVars>>

AprAfterRepay ==
    /\ pc["apr"] = "apr_after_repay"
    /\ Finish("apr")
    /\ quiet
    /\ UNCHANGED <<wsVars, dbVars, signVars>>

(* Monitors.liq_loop *)

\* monitors.py:72-74  gap = (liq_px - mark_px) / mark_px <= LIQ_THRESHOLD
GapTriggered(liq_px, mark_px) == (liq_px - mark_px) * 1000 <= LIQ_THRESHOLD * mark_px

\* variant: the de-leveraging test with a strict comparison
RiskElevatedStrict(rr) == rr > RR_CUT

\* monitors.py:82  if rr >= 0.80
RiskElevated(rr) == rr >= RR_CUT

\* monitors.py:84  cut_qty = spot_qty * 0.30 (exact on the quantities reached)
CutQty(spot_qty) == (spot_qty * CUT_PCT) \div 100

LiqMsg ==
    /\ pc["liq"] = "body"
    /\ LET p == cal["liq"].in IN
         IF p.inst # PAIR_SWAP \/ p.side # "short"
         THEN Finish("liq")
         ELSE IF p.liq = 0
         THEN Finish("liq")
         ELSE IF GapTriggered(p.liq, p.mark)
         THEN Then("liq", "close_get", 0, "liq_after_close", "Closing legs to avoid liquidation")
         ELSE Finish("liq")
    /\ quiet
    /\ UNCHANGED <<wsVars, dbVars, signVars>>

LiqAfterClose ==
    /\ pc["liq"] = "liq_after_close"
    /\ IF res["liq"] = "raise"
       THEN Crash("liq")
       ELSE Then("liq", "repay_post", 0, "liq_after_repay", said["liq"])
    /\ quiet
    /\ UNCHANGED <<wsVars, dbVars, signVars>>

\* the risk-state read, then the ledger read and the sell
LiqAfterRepay ==
    /\ pc["liq"] = "liq_after_repay"
    /\ \/ Crash("liq")
       \/ \E rr \in RiskRatios :
            IF RiskElevated(rr) /\ CutQty(DbGet.spot) > 0
            THEN /\ Invoke("liq", "sell_get", CutQty(DbGet.spot), "liq_after_sell",
                           "selling DOGE to de-leverage")
                 /\ cal' = Upd(cal, "liq", [cal["liq"] EXCEPT !.spot = DbGet.spot, !.imb = rr])
                 /\ UNCHANGED res
            ELSE /\ pc' = Upd(pc, "liq", "liq_done")
                 /\ cal' = Upd(cal, "liq", [cal["liq"] EXCEPT !.imb = rr])
                 /\ UNCHANGED <<ret, exl, res, said>>
    /\ quiet
    /\ UNCHANGED <<wsVars, dbVars, signVars>>

LiqAfterSell ==
    /\ pc["liq"] \in {"liq_after_sell", "liq_done"}
    /\ IF pc["liq"] = "liq_after_sell" /\ res["liq"] = "raise"
       THEN Crash("liq")
       ELSE Finish("liq")
    /\ quiet
    /\ UNCHANGED <<wsVars, dbVars, signVars>>

-----------------------------------------------------------------------------
(* Rebalancer *)

\* rebalance.py:121-124  delta = abs(spot + perp) / spot >= self.thr
DeltaTriggered(spot, perp) == Abs(spot + perp) * 100 >= REB_THR * spot /\ spot > 0

\* variant: the second threshold test with the comparison of the first
ImbalanceAtOrAbove(imbalance, spot) == Abs(imbalance) * 100 >= REB_THR * spot

\* rebalance.py:131  abs(imbalance) > spot * self.thr
ImbalanceAbove(imbalance, spot) == Abs(imbalance) * 100 > REB_THR * spot

\* variant: a handler that lets the exception through
CatchesNothing(r) == FALSE

\* rebalance.py:108  except Exception, in safe_rebalance
SafeRebalanceCatches(r) == r = "raise"

\* rebalance.py:141  except Exception, in run
RunCatches(r) == r = "raise"

\* an exception reaches run's handler: it is reported and the cycle ends with
\* the sleep
RunFails ==
    IF RunCatches("raise")
    THEN Goto("reb", "reb_failed", "Rebalance loop error")
    ELSE Crash("reb")

\* an exception reaches safe_rebalance's handler: it is reported, False is
\* returned and run reports the failed rebalance
SafeRebalanceFails ==
    IF SafeRebalanceCatches("raise")
    THEN Goto("reb", "reb_failed", "Rebalance failed")
    ELSE RunFails

\* Rebalancer.run: the ledger read (dbOk: it answers) and the decision; with a
\* positive imbalance safe_rebalance checks feasibility (f) and adds to the
\* short
RebCycle ==
    /\ pc["reb"] = "body"
    /\ \E dbOk \in BOOLEAN :
         LET spot == DbGet.spot
             perp == DbGet.perp
             imbalance == spot + perp
         IN IF ~dbOk
            THEN RunFails
            ELSE IF spot = 0
            THEN Finish("reb")
            ELSE IF ~DeltaTriggered(spot, perp)
            THEN Finish("reb")
            ELSE IF ~ImbalanceAbove(imbalance, spot)
            THEN Finish("reb")
            ELSE IF imbalance > 0
            THEN \E f \in BOOLEAN :
                   IF f
                   THEN /\ Invoke("reb", "short_check", Abs(imbalance), "reb_after_short",
                                  "rebalancing")
                        /\ cal' = Upd(cal, "reb", [cal["reb"] EXCEPT !.spot = spot, !.imb = imbalance])
                        /\ UNCHANGED res
                   ELSE Goto("reb", "reb_failed", "Skipping rebalance due to insufficient margin")
            ELSE /\ pc' = Upd(pc, "reb", "sr_get")
                 /\ said' = Upd(said, "reb", "rebalancing")
                 /\ cal' = Upd(cal, "reb", [cal["reb"] EXCEPT !.spot = spot, !.imb = imbalance])
                 /\ UNCHANGED <<ret, exl, res>>
    /\ quiet
    /\ UNCHANGED <<wsVars, dbVars, signVars>>

\* safe_rebalance, negative imbalance: the stored perp is read, and on either
\* branch the short is closed whole
SrGet ==
    /\ pc["reb"] = "sr_get"
    /\ \E dbOk \in BOOLEAN :
         IF dbOk
         THEN Then("reb", "close_get", 0, "sr_after_close", said["reb"])
         ELSE SafeRebalanceFails
    /\ quiet
    /\ UNCHANGED <<wsVars, dbVars, signVars>>

\* after the close (and the 2 s pause): re-establish the short at spot_qty
SrAfterClose ==
    /\ pc["reb"] = "sr_after_close"
    /\ IF res["reb"] = "raise"
       THEN SafeRebalanceFails
       ELSE IF cal["reb"].spot > 0
       THEN \E f \in BOOLEAN :
              IF f
              THEN Then("reb", "short_check", cal["reb"].spot, "reb_after_short", said["reb"])
              ELSE Goto("reb", "reb_verify", "Could not re-establish short position")
       ELSE Goto("reb", "reb_verify", said["reb"])
    /\ quiet
    /\ UNCHANGED <<wsVars, dbVars, signVars>>

\* back from short: what it raised goes to safe_rebalance's handler
RebAfterShort ==
    /\ pc["reb"] = "reb_after_short"
    /\ IF res["reb"] = "raise"
       THEN SafeRebalanceFails
       ELSE Goto("reb", "reb_verify", "Added short position")
    /\ quiet
    /\ UNCHANGED <<wsVars, dbVars, signVars>>

\* run: the ledger is read again and the new delta reported
RebVerify ==
    /\ pc["reb"] = "reb_verify"
    /\ \E dbOk \in BOOLEAN :
         IF dbOk THEN Finish("reb") ELSE RunFails
    /\ quiet
    /\ UNCHANGED <<wsVars, dbVars, signVars>>

\* run: after a reported failure the cycle ends with the sleep
RebFailed ==
    /\ pc["reb"] = "reb_failed"
    /\ Finish("reb")
    /\ quiet
    /\ UNCHANGED <<wsVars, dbVars, signVars>>

-----------------------------------------------------------------------------
(* The tasks as main launches them, on a ledger init_positions has left *)

\* the store as the running process has it after StateDB.init: the gate free
\* (state.py:27), the rows present (state.py:15, 21)
\* no request has been signed
SignIdle ==
    /\ clock = 1
    /\ sigs = {}

DbIdle ==
    /\ SignIdle
    /\ locked = FALSE
    /\ waiters = <<>>
    /\ eqref = [eq |-> 0, ts |-> 0]
    /\ stored = TRUE

InitTasksOn(rows) ==
    /\ DbIdle
    /\ ledger \in rows
    /\ ideal = ledger
    /\ pc = [t \in Tasks |-> "wait"]
    /\ ret = [t \in Tasks |-> "none"]
    /\ exl = [t \in Tasks |-> NoLoc]
    /\ cal = [t \in Tasks |-> NoCal]
    /\ res = [t \in Tasks |-> "none"]
    /\ said = [t \in Tasks |-> ""]
    /\ budget = MaxCycles
    /\ exOpen = TRUE
    /\ redundantClose = FALSE

\* no stream has been opened: the gateway as constructed (gateway.py:69-70)
WsIdle ==
    /\ ws = 0
    /\ wsLogged = FALSE
    /\ open = {}
    /\ subs = <<>>
    /\ wanted = {}
    /\ acked = {}
    /\ dropped = {}
    /\ st = <<>>

InitTasks == InitTasksOn(InitLedgers) /\ WsIdle

ExecStep(t) ==
    \/ CloseAllGet(t)
    \/ CloseAllPost(t)
    \/ CloseAllSave(t)
    \/ RepayAllPost(t)
    \/ RepayAllSave(t)
    \/ ShortCheck(t)
    \/ ShortPost(t)
    \/ ShortSave(t)
    \/ SellGet(t)
    \/ SellPost(t)
    \/ SellSave(t)

LoopStep ==
    \/ FundingMsg
    \/ FundingAfterClose
    \/ FundingAfterRepay
    \/ RiskMsg
    \/ RiskAlerted
    \/ AprPoll
    \/ AprAfterClose
    \/ AprAfterRepay
    \/ LiqMsg
    \/ LiqAfterClose
    \/ LiqAfterRepay
    \/ LiqAfterSell
    \/ RebCycle
    \/ SrGet
    \/ SrAfterClose
    \/ RebAfterShort
    \/ RebVerify
    \/ RebFailed

NextTasks ==
    \/ \E t \in Tasks : Wake(t)
    \/ \E t \in Tasks : ExecStep(t)
    \/ LoopStep

\* the tasks interleaved as asyncio interleaves them: at every await
SpecTasks == InitTasks /\ [][NextTasks]_vars

\* one iteration at a time: a task wakes only when no other task is in the
\* middle of its loop body
WakeAlone(t) ==
    /\ \A u \in Tasks : ~Busy(u)
    /\ Wake(t)

InitSeq == InitTasksOn(InitLedgersSeq) /\ WsIdle

NextSeq ==
    \/ \E t \in Tasks : WakeAlone(t)
    \/ \E t \in Tasks : ExecStep(t)
    \/ LoopStep

SpecSeq == InitSeq /\ [][NextSeq]_vars

-----------------------------------------------------------------------------
(* Claims about the executors and the monitors *)

Moved(t) == pc'[t] # pc[t]

\* C1: when the exchange answers a repay-all request with an application-level
\* rejection, repay_all reports failure and leaves the ledger unchanged.
C1_RejectedLeavesLedger ==
    [][\A t \in Tasks :
         (pc[t] = "repay_save" /\ exl[t].out = "rej" /\ Moved(t))
            => (res'[t] = "False" /\ ledger' = ledger)]_vars

\* C2: under every interleaving the ledger equals the result of applying each
\* committed executor effect exactly once (no update is overwritten by a stale
\* get-then-save).
C2_NoLostUpdate == ledger = ideal

\* C3: the close-position endpoint is never called for a short that an
\* accepted close has already closed (a redundant close_all is a no-op).
C3_NoRedundantClose == ~redundantClose

\* C4: close_all invoked while the ledger shows perp_qty >= 0 makes no call to
\* the close endpoint, leaves the ledger unchanged, reports that there is
\* nothing to close and returns True; and a successful close_all leaves the
\* ledger in such a state (perp_qty = 0).
C4_CloseAllNoop ==
    [][\A t \in Tasks :
         /\ (pc[t] = "close_get" /\ ledger.perp >= 0 /\ Moved(t))
               => /\ pc'[t] = ret[t]
                  /\ res'[t] = "True"
                  /\ said'[t] = "No short position to close"
                  /\ ledger' = ledger
                  /\ exOpen' = exOpen
                  /\ redundantClose' = redundantClose
         /\ (pc[t] = "close_save" /\ Moved(t))
               => (res'[t] = "True" /\ ledger'.perp = 0)]_vars

\* C4 witness: a second close_all, after an accepted close, found nothing to close
C4_Witness ==
    /\ pc["apr"] = "apr_after_close"
    /\ said["apr"] = "No short position to close"
    /\ res["apr"] = "True"
    /\ ledger.perp = 0
    /\ ~exOpen

\* C5: a failure raised by a monitor's triggered action does not end the monitor.
C5_MonitorsSurvive == \A m \in Monitors : ~(pc[m] = "crashed" /\ res[m] = "raise")

-----------------------------------------------------------------------------
(* OKXGateway: the private WebSocket and ws_private_stream.  A stream's   *)
(* position is the I/O it awaits; each action is the completion of that   *)
(* I/O and the code that runs up to the next await.                       *)

\* gateway.py:253-254
RECONNECT_DELAY == 1
MAX_DELAY == 60

\* the monitors that consume a stream, and the channel each subscribes to
\* (monitors.py:31, 44, 64)
Streams == {"funding", "risk", "liq"}
Chan(c) ==
    CASE c = "funding" -> "funding-rate"
      [] c = "risk" -> "account"
      [] c = "liq" -> "positions"

\* the bound on connects that applies to the run
SocketLimit ==
    IF Cardinality({c \in DOMAIN st : st[c].pc # "off"}) = 1
    THEN MaxSockets ELSE MaxSharedSockets

IsOpen(w, op) == w # 0 /\ w \in op

\* got: the kind of the frame the stream has yielded and its consumer holds
NewStream == [pc |-> "start", k |-> "none", h |-> 0, phase |-> "init",
              delay |-> RECONNECT_DELAY, fails |-> 0, got |-> ""]
\* a monitor whose stream is not part of the run
NoStream == [NewStream EXCEPT !.pc = "off"]

\* variant: doubling without the cap
NextDelayUncapped(d) == d * 2

\* gateway.py:266, 272  reconnect_delay = min(reconnect_delay * 2, max_delay)
NextDelay(d) == Min(d * 2, MAX_DELAY)

\* ws(): the socket in hand when it is open, else a connect (gateway.py:202-211);
\* ws_send then sends on the socket returned (gateway.py:215-216)
ToSend(s, x, w, op) ==
    IF IsOpen(w, op)
    THEN [s EXCEPT !.pc = x, !.h = w, !.k = "none"]
    ELSE [s EXCEPT !.pc = "connect", !.k = x, !.h = 0]

\* _ensure_ws, second half: login unless logged (gateway.py:86-87, 219-220);
\* back in the stream, the subscribe frame (gateway.py:251, 265, 271)
ToLogin(s, w, lg, op) ==
    IF lg THEN ToSend(s, "sub_send", w, op) ELSE ToSend(s, "login_send", w, op)

\* _ensure_ws, first half (gateway.py:83-85)
ToEnsure(s, w, lg, op) ==
    IF IsOpen(w, op)
    THEN ToLogin(s, w, lg, op)
    ELSE [s EXCEPT !.pc = "connect", !.k = "ensure", !.h = 0]

\* _reset_ws up to its first await (gateway.py:90-93): the close of the socket
\* in hand, or with none in hand the sleep
ToReset(s, w) ==
    IF w # 0
    THEN [s EXCEPT !.pc = "close", !.h = w, !.fails = @ + 1]
    ELSE [s EXCEPT !.pc = "sleep", !.h = 0, !.fails = @ + 1]

\* the top of the loop (gateway.py:258): self._ws.recv() on the socket in hand;
\* with none in hand the attribute error is a receive error
ToRecv(s, w) ==
    IF w # 0 THEN [s EXCEPT !.pc = "recv", !.h = w] ELSE ToReset(s, w)

SetSt(c, s) == st' = [st EXCEPT ![c] = s]

idle == UNCHANGED <<taskVars, dbVars, signVars>>

\* websockets.connect answers (gateway.py:205-211): the new socket is stored and
\* the caller goes on; or it raises, and nothing in the stream catches it
Connect(c) ==
    /\ st[c].pc = "connect"
    /\ \E ok \in BOOLEAN :
         IF ok
         THEN /\ Len(subs) < SocketLimit
              /\ LET n == Len(subs) + 1
                     op == open \cup {n}
                     s == st[c]
                 IN /\ ws' = n
                    /\ open' = op
                    /\ subs' = Append(subs, {})
                    /\ SetSt(c, IF s.k = "ensure"
                                THEN ToLogin(s, n, wsLogged, op)
                                ELSE [s EXCEPT !.pc = s.k, !.h = n, !.k = "none"])
         ELSE /\ SetSt(c, [st[c] EXCEPT !.pc = "raised"])
              /\ UNCHANGED <<ws, open, subs>>
    /\ UNCHANGED <<wsLogged, wanted, acked, dropped>>
    /\ idle


\* the hand-over from an await back to the stream when no socket is in hand at
\* the top of the loop: _reset_ws has set _ws_logged to False (gateway.py:93)
LoggedAt(w) == IF w = 0 THEN FALSE ELSE wsLogged

\* ws_private_stream is entered: _ensure_ws (gateway.py:250)
Start(c) ==
    /\ st[c].pc = "start"
    /\ SetSt(c, ToEnsure(st[c], ws, wsLogged, open))
    /\ ws' = IF IsOpen(ws, open) THEN ws ELSE 0
    /\ UNCHANGED <<wsLogged, open, subs, wanted, acked, dropped>>
    /\ idle

\* the login frame is sent (gateway.py:223-231), then ws() again for the answer
LoginSent(c) ==
    /\ st[c].pc = "login_send"
    /\ \E ok \in BOOLEAN :
         IF ok
         THEN /\ st[c].h \in open
              /\ SetSt(c, ToSend(st[c], "login_recv", ws, open))
              /\ UNCHANGED open
         ELSE /\ SetSt(c, [st[c] EXCEPT !.pc = "raised"])
              /\ open' = open \ {st[c].h}
    /\ UNCHANGED <<ws, wsLogged, subs, wanted, acked, dropped>>
    /\ idle

\* what the recv of _ws_login can return (gateway.py:234): the login
\* acknowledgment with code "0", a frame that is not that acknowledgment (a
\* login failure, an error event), a data frame of a channel subscribed on the
\* socket; or it raises: the connection closed, nothing within 5 s
LoginAnswers == {"accepted", "refused", "data", "closed", "timeout"}

\* gateway.py:236  resp.get("event") == "login" and resp.get("code") == "0"
LoginOk(a) == a = "accepted"

\* the login answer, or none within 5 s: only an accepted login sets the flag,
\* every failure is logged and the caller goes on to subscribe (gateway.py:233-242)
LoginAnswered(c) ==
    /\ st[c].pc = "login_recv"
    /\ \E a \in LoginAnswers :
         LET h == st[c].h
             op == IF a = "closed" THEN open \ {h} ELSE open IN
           /\ a \in {"accepted", "refused", "data"} => h \in open
           /\ a = "data" => subs[h] # {}
           /\ wsLogged' = (wsLogged \/ LoginOk(a))
           /\ acked' = IF a = "accepted" THEN acked \cup {h} ELSE acked
           /\ dropped' = IF a = "data" THEN dropped \cup subs[h] ELSE dropped
           /\ open' = op
           /\ SetSt(c, ToSend(st[c], "sub_send", ws, op))
    /\ UNCHANGED <<ws, subs, wanted>>
    /\ idle

\* the subscribe frame is sent (gateway.py:251, 265, 271); in the handlers the
\* delay is doubled next; then the top of the loop
Subscribed(c) ==
    /\ st[c].pc = "sub_send"
    /\ \E ok \in BOOLEAN :
         IF ok
         THEN /\ st[c].h \in open
              /\ subs' = [subs EXCEPT ![st[c].h] = @ \cup {Chan(c)}]
              /\ wanted' = wanted \cup {Chan(c)}
              /\ SetSt(c, ToRecv([st[c] EXCEPT
                                    !.delay = IF st[c].phase = "live" THEN NextDelay(@) ELSE @,
                                    !.phase = "live"], ws))
              /\ wsLogged' = LoggedAt(ws)
              /\ UNCHANGED open
         ELSE /\ SetSt(c, [st[c] EXCEPT !.pc = "raised"])
              /\ open' = open \ {st[c].h}
              /\ UNCHANGED <<subs, wanted, wsLogged>>
    /\ UNCHANGED <<ws, acked, dropped>>
    /\ idle

\* a frame: its kind, and the channel its "arg" names ("" when it has none)
Frame(kind, chan) == [kind |-> kind, chan |-> chan]

\* the frames the exchange pushes on a socket: for each channel subscribed on
\* it a data frame (arg and data) and the acknowledgment of the subscription
\* (event "subscribe" and the arg of the request); the answer to a login and
\* an error (event and code, no arg); a text that is not JSON
Frames(h) ==
    {Frame(k, ch) : k \in {"data", "subscribe"}, ch \in subs[h]}
        \cup {Frame("login", ""), Frame("error", ""), Frame("malformed", "")}

\* gateway.py:274-278  json.loads(raw), on JSONDecodeError: continue
Parses(f) == f.kind # "malformed"

\* variant: a frame with an "event" key is passed over
YieldsData(c, f) == Parses(f) /\ f.kind = "data" /\ f.chan = Chan(c)

\* gateway.py:282  if msg.get("arg", {}).get("channel") == channel: yield msg
Yields(c, f) == Parses(f) /\ f.chan = Chan(c)

\* a frame arrives within 30 s (gateway.py:258-260): the delay is reset; a data
\* frame or an acknowledgment that names the stream's channel is yielded, any
\* other frame, and a text that does not parse, is passed over: the loop goes
\* on to its next recv (gateway.py:274-283)
Received(c) ==
    /\ st[c].pc = "recv"
    /\ st[c].h \in open
    /\ \E f \in Frames(st[c].h) :
         LET s == [st[c] EXCEPT !.delay = RECONNECT_DELAY, !.fails = 0] IN
           IF Yields(c, f)
           THEN /\ SetSt(c, [s EXCEPT !.pc = "yield", !.got = f.kind])
                /\ UNCHANGED <<wsLogged, dropped>>
           ELSE /\ SetSt(c, ToRecv(s, ws))
                /\ wsLogged' = LoggedAt(ws)
                /\ dropped' = IF f.kind = "data" THEN dropped \cup {f.chan} ELSE dropped
    /\ UNCHANGED <<ws, open, subs, wanted, acked>>
    /\ idle

\* the consumer asks for the next message: the top of the loop
Resume(c) ==
    /\ st[c].pc = "yield"
    /\ SetSt(c, ToRecv([st[c] EXCEPT !.got = ""], ws))
    /\ wsLogged' = LoggedAt(ws)
    /\ UNCHANGED <<ws, open, subs, wanted, acked, dropped>>
    /\ idle

\* no frame within 30 s, the connection closed, or another error of recv
\* (gateway.py:261-263, 267-269): _reset_ws begins
ReceiveFailed(c) ==
    /\ st[c].pc = "recv"
    /\ \E e \in {"timeout", "closed"} :
         /\ open' = IF e = "closed" THEN open \ {st[c].h} ELSE open
         /\ st[c].h \notin open => e = "closed"
    /\ SetSt(c, ToReset(st[c], ws))
    /\ wsLogged' = LoggedAt(ws)
    /\ UNCHANGED <<ws, subs, wanted, acked, dropped>>
    /\ idle

\* the close of the socket returns: the handle and the login flag are cleared
\* (gateway.py:91-93) and the backoff sleep begins
Closed(c) ==
    /\ st[c].pc = "close"
    /\ open' = open \ {st[c].h}
    /\ subs' = [subs EXCEPT ![st[c].h] = {}]
    /\ ws' = 0
    /\ wsLogged' = FALSE
    /\ SetSt(c, [st[c] EXCEPT !.pc = "sleep", !.h = 0])
    /\ UNCHANGED <<wanted, acked, dropped>>
    /\ idle

\* the sleep of reconnect_delay seconds is over: _ensure_ws (gateway.py:94-95)
Slept(c) ==
    /\ st[c].pc = "sleep"
    /\ SetSt(c, ToEnsure(st[c], ws, wsLogged, open))
    /\ ws' = IF IsOpen(ws, open) THEN ws ELSE 0
    /\ UNCHANGED <<wsLogged, open, subs, wanted, acked, dropped>>
    /\ idle

StreamStep(c) ==
    \/ Start(c)
    \/ Connect(c)
    \/ LoginSent(c)
    \/ LoginAnswered(c)
    \/ Subscribed(c)
    \/ Received(c)
    \/ Resume(c)
    \/ ReceiveFailed(c)
    \/ Closed(c)
    \/ Slept(c)

InitWsOn(cs) ==
    /\ InitTasksOn({Row(1000, -1000, 500)})
    /\ ws = 0
    /\ wsLogged = FALSE
    /\ open = {}
    /\ subs = <<>>
    /\ wanted = {}
    /\ acked = {}
    /\ dropped = {}
    /\ st = [c \in Streams |-> IF c \in cs THEN NewStream ELSE NoStream]

NextWs == \E c \in Streams : StreamStep(c)

\* one stream alone on the gateway
InitStream == \E c \in Streams : InitWsOn({c})
SpecStream == InitStream /\ [][NextWs]_vars

\* the three monitors' streams on the one gateway
InitWS == InitWsOn(Streams)
SpecWS == InitWS /\ [][NextWs]_vars

-----------------------------------------------------------------------------
(* Claims about the private WebSocket stream *)

\* C6: a stream that has been established never raises to its consumer because
\* of a network-layer fault.
C6_StreamNeverRaises ==
    \A c \in Streams : ~(st[c].pc = "raised" /\ st[c].phase = "live")

\* C7: when a stream resumes receiving after a reconnect, every channel that
\* some stream has subscribed to is subscribed on the socket it resumes on.
C7_AllResubscribed ==
    [][\A c \in Streams :
         (st[c].pc = "sub_send" /\ st[c].phase = "live" /\ st'[c].pc = "recv")
            => wanted' \subseteq subs'[st'[c].h]]_vars

\* C8: the delay slept before the reconnect that follows the N-th consecutive
\* receive failure is min(2^(N-1), 60) seconds, N counted from the last frame
\* received, and the delay is always within [1, 60].
C8_Backoff ==
    \A c \in Streams :
        /\ st[c].delay >= 1
        /\ st[c].delay <= 60
        /\ st[c].pc \in {"close", "sleep"}
              => st[c].delay = Min(2 ^ (st[c].fails - 1), 60)

\* C8 witness: the seventh consecutive failure sleeps the capped delay
C8_Witness ==
    \E c \in Streams :
        st[c].pc = "sleep" /\ st[c].fails = 7 /\ st[c].delay = 60

-----------------------------------------------------------------------------
(* BorrowMgr.borrow and SpotExec.buy, the executor calls of the start-up *)

\* borrow.py:82  if usdt <= 0: return False
InvalidAmt(usdt) == usdt <= 0

\* get_max_loan_info answers: nothing (None), a quota that covers the amount,
\* a quota below it
QuotaChecks == {"none", "ok", "low"}

\* borrow.py:86  loan_info and usdt > loan_info["availableQuota"]
QuotaLow(q) == q = "low"

\* the amount check and the quota pre-check (borrow.py:82-89)
BorrowCheck(t) ==
    /\ pc[t] = "borrow_check"
    /\ IF InvalidAmt(exl[t].qty)
       THEN Return(t, "False", said[t])
       ELSE \E q \in QuotaChecks :
              IF QuotaLow(q)
              THEN Return(t, "False", "Requested loan exceeds available quota")
              ELSE Step(t, "borrow_post", [exl[t] EXCEPT !.pre = q], said[t])
    /\ noSave
    /\ UNCHANGED <<cal, budget, exOpen, redundantClose>>
    /\ UNCHANGED <<wsVars, dbVars, signVars>>

\* the borrow call and, unless it raised, the ledger read (borrow.py:91-101)
BorrowPost(t) ==
    /\ pc[t] = "borrow_post"
    /\ \E o \in PostOutcomes :
         IF PostRaises(o)
         THEN Return(t, "False", "Borrow failed")
         ELSE Step(t, "borrow_save", Read(exl[t], o), said[t])
    /\ noSave
    /\ UNCHANGED <<cal, budget, exOpen, redundantClose>>
    /\ UNCHANGED <<wsVars, dbVars, signVars>>

BorrowSave(t) ==
    /\ pc[t] = "borrow_save"
    /\ DbSave(exl[t].spot, exl[t].perp, exl[t].loan + exl[t].qty,
              [ideal EXCEPT !.loan = @ + exl[t].qty])
    /\ Return(t, "True", "Borrowed")
    /\ UNCHANGED <<cal, budget, exOpen, redundantClose>>
    /\ UNCHANGED <<wsVars, dbVars, signVars>>

\* max-size answers: no limit reported, or a maxBuy of this many units
MaxBuys == {0, 900}

\* spot.py:99-105  the quantity is cut to maxBuy when one is reported
BuyQty(qty, max_buy) == IF max_buy > 0 /\ qty > max_buy THEN max_buy ELSE qty

\* get_detailed_balance_check answers: enough, not enough, nothing (None);
\* the fallback get_equity: enough, not enough, or it raises
BalanceChecks == {"ok", "low", "none"}
EquityChecks == {"ok", "low", "raise"}

\* spot.py:75  if not balance_check["can_execute"]
BalanceLow(b) == b = "low"

\* the quantity check, the ticker read, the balance check or with no balance
\* data the equity check, the max-size read (spot.py:51-105)
BuyCheck(t) ==
    /\ pc[t] = "buy_check"
    /\ IF InvalidQty(exl[t].qty)
       THEN Return(t, "raise", said[t])
       ELSE \E tickerOk \in BOOLEAN, b \in BalanceChecks, e \in EquityChecks,
               mb \in MaxBuys :
              IF ~tickerOk
              THEN Return(t, "raise", said[t])
              ELSE IF BalanceLow(b)
              THEN Return(t, "raise", "Insufficient balance for spot buy")
              ELSE IF b = "none" /\ e = "raise"
              THEN Return(t, "raise", said[t])
              ELSE Step(t, "buy_post",
                        [exl[t] EXCEPT !.qty = BuyQty(@, mb),
                                       !.pre = IF b = "ok" THEN "ok" ELSE "fallback_" \o e],
                        IF b = "none" /\ e = "low"
                        THEN "Potential insufficient balance" ELSE said[t])
    /\ noSave
    /\ UNCHANGED <<cal, budget, exOpen, redundantClose>>
    /\ UNCHANGED <<wsVars, dbVars, signVars>>

\* the order and, when it is accepted, the ledger read (spot.py:118-124)
BuyPost(t) ==
    /\ pc[t] = "buy_post"
    /\ \E o \in PostOutcomes :
         IF PostOrderRaises(o)
         THEN Return(t, "raise", "Spot buy failed")
         ELSE Step(t, "buy_save", Read(exl[t], o), "Spot BUY")
    /\ noSave
    /\ UNCHANGED <<cal, budget, exOpen, redundantClose>>
    /\ UNCHANGED <<wsVars, dbVars, signVars>>

BuySave(t) ==
    /\ pc[t] = "buy_save"
    /\ DbSave(exl[t].spot + exl[t].qty, exl[t].perp, exl[t].loan,
              [ideal EXCEPT !.spot = @ + exl[t].qty])
    /\ Return(t, "True", said[t])
    /\ UNCHANGED <<cal, budget, exOpen, redundantClose>>
    /\ UNCHANGED <<wsVars, dbVars, signVars>>

-----------------------------------------------------------------------------
(* runner.main and runner.init_positions *)

\* the rows the store can hold when the process starts: a fresh store (the
\* row that StateDB.init inserts), an established position, a position whose
\* short was never placed, a loan without a position
StoredRows == {Row(0, 0, 0), Row(1000, -1000, 500), Row(1000, 0, 500), Row(0, 0, 500)}

\* calculate_safe_loan answers: nothing to borrow, or an amount
FirstLoans == {0, 500}
SecondLoans == {0, 300}
\* the position size computed from equity and price: too small, or a size
SpotTargets == {0, 1000}

\* variant: a spot holding alone counts as a restored position
RestoredLax(row) == row.spot > 0

\* runner.py:28  if spot_qty > 0 and perp_qty < 0: the position is restored
Restored(row) == row.spot > 0 /\ row.perp < 0

\* the methods class Monitors defines (monitors.py:30, 43, 51, 62) and the
\* method of Rebalancer that main calls (rebalance.py:113)
Defined == {<<"mon", "funding_loop">>, <<"mon", "risk_loop">>, <<"mon", "apr_poll">>,
            <<"mon", "liq_loop">>, <<"reb", "run">>}

\* runner.py:137-144  the coroutines main lists, in order
TaskList == << <<"mon", "funding_loop">>, <<"mon", "risk_loop">>, <<"mon", "apr_poll">>,
               <<"mon", "liq_loop">>, <<"mon", "pnl_guard">>, <<"reb", "run">> >>

\* building the list raises AttributeError at the first entry that names no method
ListBuilds == \A i \in 1..Len(TaskList) : TaskList[i] \in Defined

\* main moves to label l, having logged event ev and sent alert
MainTo(l, ev, alert) ==
    /\ pc' = Upd(pc, "main", l)
    /\ cal' = Upd(cal, "main", [cal["main"] EXCEPT !.in = ev])
    /\ said' = Upd(said, "main", alert)
    /\ UNCHANGED <<ret, exl, res>>

\* main calls an executor method with quantity q, to come back at label k
MainCall(proc, q, k, target) ==
    /\ Invoke("main", proc, q, k, said["main"])
    /\ cal' = Upd(cal, "main", [cal["main"] EXCEPT !.spot = target])
    /\ UNCHANGED res

\* variant: the failure is logged and reported but not re-raised
InitFailsSwallowed == MainTo("metrics", "INIT_FAILED", "Initialization failed")

\* init_positions fails: INIT_FAILED is logged, the alert sent, the exception
\* re-raised into main's handler (runner.py:115-118, 147)
InitFails == MainTo("main_error", "INIT_FAILED", "Initialization failed")

\* OKXGateway(): missing credentials raise before main's try (runner.py:121)
MainConstruct ==
    /\ pc["main"] = "start"
    /\ \E creds \in BOOLEAN :
         IF creds
         THEN MainTo("db_init", "", "")
         ELSE MainTo("exited", "Missing OKX credentials", "")
    /\ quiet
    /\ UNCHANGED <<wsVars, dbVars, signVars>>

\* StateDB.init: the row is inserted unless one is stored (state.py:15, 29-32)
MainDbInit ==
    /\ pc["main"] = "db_init"
    /\ MainTo("init_get", "", "")
    /\ quiet
    /\ UNCHANGED <<wsVars, dbVars, signVars>>

\* init_positions: the ledger read; restored, or the fresh start up to the
\* first borrow (runner.py:27-45)
InitGet ==
    /\ pc["main"] = "init_get"
    /\ IF Restored(DbGet)
       THEN MainTo("metrics", "STATE_RESTORED", "")
       ELSE \E equityOk \in BOOLEAN, max_safe_loan \in FirstLoans :
              IF ~equityOk \/ max_safe_loan <= 0
              THEN InitFails
              ELSE MainCall("borrow_check", max_safe_loan, "init_after_borrow", 0)
    /\ quiet
    /\ UNCHANGED <<wsVars, dbVars, signVars>>

\* the position size from ticker and equity, then the spot buy (runner.py:56-101)
SizeAndBuy ==
    \E readsOk \in BOOLEAN, spot_target \in SpotTargets :
       IF ~readsOk \/ spot_target <= 0
       THEN InitFails
       ELSE MainCall("buy_check", spot_target, "init_after_buy", spot_target)

\* runner.py:46-53  a failed borrow is tried once more with a smaller amount
InitAfterBorrow ==
    /\ pc["main"] = "init_after_borrow"
    /\ IF res["main"] = "True"
       THEN SizeAndBuy
       ELSE \E max_safe_loan \in SecondLoans :
              IF max_safe_loan > 0
              THEN MainCall("borrow_check", max_safe_loan, "init_after_retry", 0)
              ELSE InitFails
    /\ quiet
    /\ UNCHANGED <<wsVars, dbVars, signVars>>

InitAfterRetry ==
    /\ pc["main"] = "init_after_retry"
    /\ IF res["main"] = "True" THEN SizeAndBuy ELSE InitFails
    /\ quiet
    /\ UNCHANGED <<wsVars, dbVars, signVars>>

\* runner.py:101-102  the short of the same size follows the buy
InitAfterBuy ==
    /\ pc["main"] = "init_after_buy"
    /\ IF res["main"] = "True"
       THEN MainCall("short_check", cal["main"].spot, "init_after_short", cal["main"].spot)
       ELSE InitFails
    /\ quiet
    /\ UNCHANGED <<wsVars, dbVars, signVars>>

\* runner.py:104-113
InitAfterShort ==
    /\ pc["main"] = "init_after_short"
    /\ IF res["main"] = "True"
       THEN MainTo("metrics", "INIT_COMPLETE", "Bot initialized")
       ELSE InitFails
    /\ quiet
    /\ UNCHANGED <<wsVars, dbVars, signVars>>

\* Monitors(...), Rebalancer(...), start_http_server(9090) (runner.py:132-135)
MainMetrics ==
    /\ pc["main"] = "metrics"
    /\ \E portFree \in BOOLEAN :
         IF portFree
         THEN MainTo("launch", cal["main"].in, said["main"])
         ELSE MainTo("main_error", "MAIN_ERROR", "Bot crashed")
    /\ quiet
    /\ UNCHANGED <<wsVars, dbVars, signVars>>

\* the task list is built; when it builds, the start alert is sent and the
\* tasks are gathered (runner.py:137-146)
MainLaunch ==
    /\ pc["main"] = "launch"
    /\ IF ListBuilds
       THEN /\ pc' = [t \in DOMAIN pc |-> IF t = "main" THEN "gather" ELSE "wait"]
            /\ said' = Upd(said, "main", "DOGE-carry bot Started")
            /\ UNCHANGED <<ret, exl, res, cal>>
       ELSE MainTo("main_error", "MAIN_ERROR", "Bot crashed")
    /\ quiet
    /\ UNCHANGED <<wsVars, dbVars, signVars>>

\* main's handler re-raises and the finally clause closes the gateway
\* (runner.py:147-154)
MainError ==
    /\ pc["main"] = "main_error"
    /\ MainTo("exited", cal["main"].in, "Bot crashed")
    /\ quiet
    /\ UNCHANGED <<wsVars, dbVars, signVars>>

InitMain ==
    /\ DbIdle
    /\ ledger \in StoredRows
    /\ ideal = ledger
    /\ pc = [t \in Tasks \cup {"main"} |-> IF t = "main" THEN "start" ELSE "unstarted"]
    /\ ret = [t \in Tasks \cup {"main"} |-> "none"]
    /\ exl = [t \in Tasks \cup {"main"} |-> NoLoc]
    /\ cal = [t \in Tasks \cup {"main"} |-> [NoCal EXCEPT !.in = ""]]
    /\ res = [t \in Tasks \cup {"main"} |-> "none"]
    /\ said = [t \in Tasks \cup {"main"} |-> ""]
    /\ budget = 0
    /\ exOpen = (ledger.perp < 0)
    /\ redundantClose = FALSE
    /\ WsIdle

NextMain ==
    \/ MainConstruct
    \/ MainDbInit
    \/ InitGet
    \/ BorrowCheck("main")
    \/ BorrowPost("main")
    \/ BorrowSave("main")
    \/ InitAfterBorrow
    \/ InitAfterRetry
    \/ BuyCheck("main")
    \/ BuyPost("main")
    \/ BuySave("main")
    \/ InitAfterBuy
    \/ ShortCheck("main")
    \/ ShortPost("main")
    \/ ShortSave("main")
    \/ InitAfterShort
    \/ MainMetrics
    \/ MainLaunch
    \/ MainError

SpecMain == InitMain /\ [][NextMain]_vars

\* C10: once init_positions has returned, main's next step after the metrics
\* server leaves the four monitors and the rebalancer running.
C10_AllTasksLaunched ==
    [][(pc["main"] = "launch" /\ pc'["main"] # "launch")
          => \A t \in Tasks : pc'[t] = "wait"]_vars

-----------------------------------------------------------------------------
(* BorrowMgr.repay: the amount check, the repay call and, unless it raised, *)
(* the ledger read; then the save of the reduced loan                       *)

\* borrow.py:127  if usdt <= 0: return True
RepayPost(t) ==
    /\ pc[t] = "repay_part_post"
    /\ IF exl[t].qty <= 0
       THEN Return(t, "True", said[t])
       ELSE \E o \in PostOutcomes :
              IF PostRaises(o)
              THEN Return(t, "False", "Repay failed")
              ELSE Step(t, "repay_part_save", Read(exl[t], o), said[t])
    /\ noSave
    /\ UNCHANGED <<cal, budget, exOpen, redundantClose>>
    /\ UNCHANGED <<wsVars, dbVars, signVars>>

\* borrow.py:135  max(loan - usdt, 0.0)
RepaySave(t) ==
    /\ pc[t] = "repay_part_save"
    /\ LET left == IF exl[t].loan - exl[t].qty > 0 THEN exl[t].loan - exl[t].qty ELSE 0
           due == IF ideal.loan - exl[t].qty > 0 THEN ideal.loan - exl[t].qty ELSE 0
       IN DbSave(exl[t].spot, exl[t].perp, left, [ideal EXCEPT !.loan = due])
    /\ Return(t, "True", "Repaid")
    /\ UNCHANGED <<cal, budget, exOpen, redundantClose>>
    /\ UNCHANGED <<wsVars, dbVars, signVars>>

-----------------------------------------------------------------------------
(* The executor methods called one at a time, each with any quantity, on a *)
(* ledger with and without positions                                        *)

\* calls made in one run
MaxCalls == 2

Methods == {"buy", "sell", "short", "borrow", "repay", "close_all", "repay_all"}
\* the methods that take a quantity
Sized == {"buy", "sell", "short", "borrow", "repay"}
\* quantities: negative, zero, within and beyond what the ledger holds
Qtys == {0 - 5, 0, 50, 2000}
ExecLedgers == {Row(1000, -1000, 500), Row(0, 0, 0)}

\* the first label of each method
Entry(m) ==
    CASE m = "buy" -> "buy_check"
      [] m = "sell" -> "sell_get"
      [] m = "short" -> "short_check"
      [] m = "borrow" -> "borrow_check"
      [] m = "repay" -> "repay_part_post"
      [] m = "close_all" -> "close_get"
      [] m = "repay_all" -> "repay_post"

\* the call in progress: the method, its argument and the ledger it found
Call(m, q) == [in |-> [method |-> m, qty |-> q, before |-> ledger], spot |-> 0, imb |-> 0]

DrvCall ==
    /\ pc["drv"] = "idle"
    /\ budget > 0
    /\ \E m \in Methods : \E q \in (IF m \in Sized THEN Qtys ELSE {0}) :
         /\ Invoke("drv", Entry(m), q, "drv_done", "")
         /\ cal' = Upd(cal, "drv", Call(m, q))
    /\ budget' = budget - 1
    /\ res' = Upd(res, "drv", "none")
    /\ noSave
    /\ UNCHANGED <<exOpen, redundantClose>>
    /\ UNCHANGED <<wsVars, dbVars, signVars>>

DrvDone ==
    /\ pc["drv"] = "drv_done"
    /\ pc' = Upd(pc, "drv", "idle")
    /\ noSave
    /\ UNCHANGED <<ret, exl, cal, res, said, budget, exOpen, redundantClose>>
    /\ UNCHANGED <<wsVars, dbVars, signVars>>

InitExec ==
    /\ DbIdle
    /\ ledger \in ExecLedgers
    /\ ideal = ledger
    /\ pc = [t \in {"drv"} |-> "idle"]
    /\ ret = [t \in {"drv"} |-> "none"]
    /\ exl = [t \in {"drv"} |-> NoLoc]
    /\ cal = [t \in {"drv"} |-> Call("none", 0)]
    /\ res = [t \in {"drv"} |-> "none"]
    /\ said = [t \in {"drv"} |-> ""]
    /\ budget = MaxCalls
    /\ exOpen = (ledger.perp < 0)
    /\ redundantClose = FALSE
    /\ WsIdle

NextExec ==
    \/ DrvCall
    \/ DrvDone
    \/ CloseAllGet("drv")
    \/ CloseAllPost("drv")
    \/ CloseAllSave("drv")
    \/ RepayAllPost("drv")
    \/ RepayAllSave("drv")
    \/ ShortCheck("drv")
    \/ ShortPost("drv")
    \/ ShortSave("drv")
    \/ SellGet("drv")
    \/ SellPost("drv")
    \/ SellSave("drv")
    \/ BorrowCheck("drv")
    \/ BorrowPost("drv")
    \/ BorrowSave("drv")
    \/ BuyCheck("drv")
    \/ BuyPost("drv")
    \/ BuySave("drv")
    \/ RepayPost("drv")
    \/ RepaySave("drv")

SpecExec == InitExec /\ [][NextExec]_vars

-----------------------------------------------------------------------------
(* Claims about the executor methods *)

\* the labels at which the mutating request is about to be sent
Sending == {"borrow_post", "short_post", "buy_post"}

\* C11: a call whose pre-check failed (borrow's quota check, short's margin
\* check, buy's balance check or its fallback equity check) never gets to send
\* its borrow or order request
C11_FailedCheckAborts ==
    \A t \in DOMAIN pc :
        pc[t] \in Sending => exl[t].pre \notin {"low", "fallback_low"}

\* the order methods, the labels at which their order is sent and at which
\* they save
OrderMethods == {"buy", "sell", "short"}
OrderPosts == {"buy_post", "sell_post", "short_post"}
OrderSaves == {"buy_save", "sell_save", "short_save"}

\* C12: buy, sell and short get to their save only after an order that
\* post_order accepted; when the order step does not lead to the save the call
\* returns to its caller raising, with the ledger as it was; and during a call
\* of buy, sell or short the ledger changes only in the save that follows an
\* accepted order
C12_OrderFailureRaises ==
    /\ [](\A t \in DOMAIN pc : pc[t] \in OrderSaves => exl[t].out = "ok")
    /\ [][\A t \in DOMAIN pc :
            /\ (pc[t] \in OrderPosts /\ pc'[t] # pc[t] /\ pc'[t] \notin OrderSaves)
                  => (pc'[t] = ret[t] /\ res'[t] = "raise" /\ ledger' = ledger)
            /\ (cal[t].in.method \in OrderMethods /\ ledger' # ledger)
                  => (pc[t] \in OrderSaves /\ exl[t].out = "ok")]_vars

\* short has returned raising from its order step and the ledger is the one
\* the call found
C12_Witness ==
    /\ pc["drv"] = "drv_done"
    /\ cal["drv"].in.method = "short"
    /\ res["drv"] = "raise"
    /\ said["drv"] = "Perp short failed"
    /\ ledger = cal["drv"].in.before

\* the first label of the methods that take a quantity
SizedEntries == {Entry(m) : m \in Sized}

\* C13: buy, sell, short, borrow and repay called with a quantity <= 0 return
\* from their first step with a failure outcome (an exception or False),
\* sending nothing and leaving the ledger unchanged
C13_NonPositiveRejected ==
    [][\A t \in DOMAIN pc :
         (pc[t] \in SizedEntries /\ exl[t].qty <= 0 /\ pc'[t] # pc[t])
            => /\ pc'[t] = ret[t]
               /\ res'[t] \in {"raise", "False"}
               /\ ledger' = ledger]_vars

-----------------------------------------------------------------------------
(* Claims about the monitors and the rebalancer, one iteration at a time *)

\* C14: a position message of the short leg whose gap is at or below 0.2%
\* makes the liquidation monitor call close_all and, once it returned,
\* repay_all; after repay_all it reads the risk ratio, and with a ratio >= 0.80
\* it calls sell once with 30% of the ledger's spot quantity, with a lower ratio
\* it calls nothing more; the sell's save takes that quantity off the ledger's
\* spot quantity
C14_LiqUnwindAndCut ==
    [][/\ (pc["liq"] = "body" /\ pc'["liq"] # "body")
            => LET p == cal["liq"].in IN
                 IF /\ p.inst = PAIR_SWAP
                    /\ p.side = "short"
                    /\ p.liq # 0
                    /\ (p.liq - p.mark) * 1000 <= LIQ_THRESHOLD * p.mark
                 THEN pc'["liq"] = "close_get" /\ ret'["liq"] = "liq_after_close"
                 ELSE pc'["liq"] = "wait"
       /\ (pc["liq"] = "liq_after_close" /\ pc'["liq"] # "liq_after_close")
            => IF res["liq"] = "True"
               THEN pc'["liq"] = "repay_post" /\ ret'["liq"] = "liq_after_repay"
               ELSE pc'["liq"] = "crashed"
       /\ (pc["liq"] = "liq_after_repay" /\ pc'["liq"] \notin {"liq_after_repay", "crashed"})
            => IF cal'["liq"].imb >= RR_CUT
               THEN /\ pc'["liq"] = "sell_get"
                    /\ ret'["liq"] = "liq_after_sell"
                    /\ exl'["liq"].qty * 100 = ledger.spot * CUT_PCT
               ELSE pc'["liq"] = "liq_done"
       /\ (pc["liq"] = "sell_save" /\ pc'["liq"] # "sell_save")
            => /\ (ledger.spot - ledger'.spot) * 100 = ledger.spot * CUT_PCT
               /\ pc'["liq"] = "liq_after_sell"
       /\ (pc["liq"] \in {"liq_after_sell", "liq_done"} /\ pc'["liq"] # pc["liq"])
            => pc'["liq"] \in {"wait", "crashed"}
       /\ (pc["liq"] # "sell_get" /\ pc'["liq"] = "sell_get")
            => pc["liq"] = "liq_after_repay"]_vars

\* the monitor's sell has returned after a risk ratio of exactly 0.80: of
\* 1000 units 700 are left, the short is closed and the loan repaid
C14_Witness ==
    /\ pc["liq"] = "liq_after_sell"
    /\ res["liq"] = "True"
    /\ cal["liq"].imb = RR_CUT
    /\ ledger = Row(700, 0, 0)

\* C15: a cycle that reads spot > 0 and a positive imbalance spot + perp with
\* |spot + perp| / spot >= 1% calls short with exactly spot + perp units,
\* unless the feasibility check refuses or the ledger read fails; and when that
\* short has returned the ledger has spot + perp = 0
C15_PositiveImbalanceShorted ==
    [][/\ (/\ pc["reb"] = "body"
           /\ pc'["reb"] # "body"
           /\ said'["reb"] # "Rebalance loop error"
           /\ ledger.spot > 0
           /\ ledger.spot + ledger.perp > 0
           /\ (ledger.spot + ledger.perp) * 100 >= REB_THR * ledger.spot)
            => \/ /\ pc'["reb"] = "short_check"
                  /\ ret'["reb"] = "reb_after_short"
                  /\ exl'["reb"].qty = ledger.spot + ledger.perp
               \/ /\ pc'["reb"] = "reb_failed"
                  /\ said'["reb"] = "Skipping rebalance due to insufficient margin"
       /\ (/\ pc["reb"] = "reb_after_short"
           /\ pc'["reb"] # "reb_after_short"
           /\ cal["reb"].imb > 0
           /\ res["reb"] = "True")
            => /\ pc'["reb"] = "reb_verify"
               /\ ledger.spot + ledger.perp = 0]_vars

\* C16: a poll of the APR monitor calls close_all (and, once it returned,
\* repay_all) exactly when the polled interest rate exceeds the exit
\* threshold; a rate that does not exceed it ends the cycle with no call
C16_AprUnwindIffExceeds ==
    [][/\ (pc["apr"] = "body" /\ pc'["apr"] \notin {"body", "crashed"})
            => IF cal["apr"].in.apr > APR_EXIT
               THEN pc'["apr"] = "close_get" /\ ret'["apr"] = "apr_after_close"
               ELSE pc'["apr"] = "wait"
       /\ (pc["apr"] = "apr_after_close" /\ pc'["apr"] \notin {"apr_after_close", "crashed"})
            => pc'["apr"] = "repay_post" /\ ret'["apr"] = "apr_after_repay"]_vars

-----------------------------------------------------------------------------
(* Claims about the tasks interleaved *)

\* C17: no step of the risk-ratio monitor calls an executor method or changes
\* the ledger or the exchange position, whatever the risk ratio of the
\* message; its only act is the alert, sent exactly when the ratio is >= 0.9
C17_RiskAlertOnly ==
    [][pc'["risk"] # pc["risk"]
         => /\ ledger' = ledger
            /\ exOpen' = exOpen
            /\ pc'["risk"] \in {"wait", "body", "risk_alerted"}
            /\ ret'["risk"] = "none"
            /\ pc["risk"] = "body"
                 => IF cal["risk"].in.rr >= RR_EMERGENCY
                    THEN pc'["risk"] = "risk_alerted" /\ said'["risk"] = "EMERGENCY riskRatio"
                    ELSE pc'["risk"] = "wait" /\ said'["risk"] = ""]_vars

\* the alert has been sent for a ratio of exactly 0.9
C17_Witness ==
    /\ pc["risk"] = "risk_alerted"
    /\ cal["risk"].in.rr = RR_EMERGENCY
    /\ said["risk"] = "EMERGENCY riskRatio"

\* C18: the rebalancer's task never ends: a failed ledger read is reported by
\* run's handler, an exception of short or close_all by safe_rebalance's
\* handler, a refused feasibility check by run; after each report the cycle
\* ends with the sleep and the task waits for its next cycle
C18_RebalancerSurvives ==
    /\ [](pc["reb"] # "crashed")
    /\ [][/\ (/\ pc["reb"] \in {"sr_after_close", "reb_after_short"}
              /\ res["reb"] = "raise"
              /\ pc'["reb"] # pc["reb"])
               => pc'["reb"] = "reb_failed" /\ said'["reb"] = "Rebalance failed"
          /\ (pc["reb"] = "reb_failed" /\ pc'["reb"] # "reb_failed")
               => pc'["reb"] = "wait"]_vars

\* short or close_all has raised and the failed rebalance has been reported
C18_Witness ==
    /\ pc["reb"] = "reb_failed"
    /\ res["reb"] = "raise"
    /\ said["reb"] = "Rebalance failed"

-----------------------------------------------------------------------------
(* Claims about the start *)

\* C19: when the stored ledger has spot_qty > 0 and perp_qty < 0,
\* init_positions returns after its ledger read, calling no executor and
\* leaving the ledger unchanged; otherwise it starts the sequence in which
\* buy is only called after a borrow that succeeded and short only after the
\* buy returned, and borrow is only called on this path
C19_RestoredOrColdStart ==
    [][/\ (pc["main"] = "init_get" /\ pc'["main"] # "init_get")
            => IF ledger.spot > 0 /\ ledger.perp < 0
               THEN /\ pc'["main"] = "metrics"
                    /\ cal'["main"].in = "STATE_RESTORED"
                    /\ ledger' = ledger
               ELSE pc'["main"] \in {"borrow_check", "main_error"}
       /\ (pc'["main"] = "borrow_check" /\ pc["main"] # "borrow_check")
            => \/ pc["main"] = "init_get"
               \/ pc["main"] = "init_after_borrow" /\ res["main"] = "False"
       /\ (pc'["main"] = "buy_check" /\ pc["main"] # "buy_check")
            => /\ pc["main"] \in {"init_after_borrow", "init_after_retry"}
               /\ res["main"] = "True"
       /\ (pc'["main"] = "short_check" /\ pc["main"] # "short_check")
            => /\ pc["main"] = "init_after_buy"
               /\ res["main"] = "True"
               /\ exl'["main"].qty = cal["main"].spot]_vars

\* the stored position has been restored: init_positions has returned on the
\* ledger it found
C19_Witness ==
    /\ pc["main"] = "metrics"
    /\ cal["main"].in = "STATE_RESTORED"
    /\ ledger = Row(1000, -1000, 500)
    /\ res["main"] = "none"

\* C20: without credentials main ends at the gateway's construction; a failure
\* inside init_positions (no borrowing capacity, a borrow that failed twice, a
\* buy or a short that raised) is logged as INIT_FAILED and takes main to its
\* error handler and from there to its end; and whenever main is in its error
\* handler or has ended, no monitor and no rebalancer task has been started
C20_StartupFailureAborts ==
    /\ [](pc["main"] \in {"main_error", "exited"}
            => \A t \in Tasks : pc[t] = "unstarted")
    /\ [][(pc'["main"] # pc["main"])
            => /\ (\/ pc["main"] = "init_after_retry" /\ res["main"] # "True"
                   \/ pc["main"] = "init_after_buy" /\ res["main"] = "raise"
                   \/ pc["main"] = "init_after_short" /\ res["main"] = "raise")
                    => pc'["main"] = "main_error" /\ cal'["main"].in = "INIT_FAILED"
               /\ cal'["main"].in \in {"INIT_FAILED", "Missing OKX credentials"}
                    => pc'["main"] \in {"main_error", "exited"}
               /\ pc["main"] = "main_error" => pc'["main"] = "exited"
               /\ pc["main"] # "exited"]_vars

\* main has ended after a failed init_positions, with no task started
C20_Witness ==
    /\ pc["main"] = "exited"
    /\ cal["main"].in = "INIT_FAILED"
    /\ \A t \in Tasks : pc[t] = "unstarted"

\* C21: during the start every change of the ledger records an action the
\* exchange confirmed, by exactly its quantity (the loan grows by the borrowed
\* amount, spot by the bought quantity, the short by the sold quantity); and
\* when buy or short raises after an earlier action succeeded, init_positions
\* fails with the ledger left as those actions made it
C21_PartialStartSurfaced ==
    [][/\ (ledger' # ledger)
            => /\ exl["main"].out = "ok"
               /\ \/ /\ pc["main"] = "borrow_save"
                     /\ ledger' = [ledger EXCEPT !.loan = @ + exl["main"].qty]
                  \/ /\ pc["main"] = "buy_save"
                     /\ ledger' = [ledger EXCEPT !.spot = @ + exl["main"].qty]
                  \/ /\ pc["main"] = "short_save"
                     /\ ledger' = [ledger EXCEPT !.perp = @ - exl["main"].qty]
       /\ (/\ pc["main"] \in {"init_after_buy", "init_after_short"}
           /\ res["main"] = "raise"
           /\ pc'["main"] # pc["main"])
            => /\ pc'["main"] = "main_error"
               /\ cal'["main"].in = "INIT_FAILED"
               /\ ledger' = ledger]_vars

-----------------------------------------------------------------------------
(* StateDB: the gate (an asyncio.Lock: taken at once when it is free and   *)
(* nobody waits, otherwise handed to the waiters in order of arrival), the *)
(* four operations, init, and the restart of the process                   *)

\* calls and restarts in one run
MaxDbEvents == 4

DbCallers == {"c1", "c2", "c3"}
DbProcs == DbCallers \cup {"main"}
DbOps == {"get", "save", "get_eq_ref", "save_eq_ref"}
\* the operations that end with a commit
DbWrites == {"save", "save_eq_ref"}
\* the triples save is called with: each recognisable by its three fields
SaveRows == {Row(1, 0 - 1, 1), Row(2, 0 - 2, 2)}
\* the pair save_eq_ref is called with
EqRows == {[eq |-> 1, ts |-> 1]}

\* stands for the bot_state row of a file that has none
NoRow == Row(0 - 1, 0 - 1, 0 - 1)
NoEqRow == [eq |-> 0 - 1, ts |-> 0 - 1]

\* variant: the insert replaces the row that is there
InsertOrReplace(has, row) == Row(0, 0, 0)

\* state.py:10-15  insert or ignore into bot_state (id) values (1): the row is
\* inserted with its defaults unless there is one
InsertOrIgnore(has, row) == IF has THEN row ELSE Row(0, 0, 0)

\* state.py:17-21  the same for equity_ref
InsertOrIgnoreEq(has, row) == IF has THEN row ELSE [eq |-> 0, ts |-> 0]

\* variant: the gate lets everybody in
GateIgnored == TRUE

\* state.py:35, 40, 47, 52  async with self._lock: the caller goes in at once
\* only when the gate is free and nobody waits for it
GateFree == ~locked /\ waiters = <<>>

\* the caller is inside `async with self._lock, aiosqlite.connect(...)`
InSection(c) == pc[c] \in {"in", "exec", "committed", "failed"}

\* what the caller passes
DbArgs(op) ==
    CASE op = "save" -> SaveRows
      [] op = "save_eq_ref" -> {Row(e.eq, e.ts, 0) : e \in EqRows}
      [] OTHER -> {Row(0, 0, 0)}

\* no operation in progress
NoDbCal == [NoCal EXCEPT !.in = ""]

\* main has run StateDB.init: in the first run of the process, or in a later one
Running == pc["main"] \in {"running", "running_again"}

dbQuiet == UNCHANGED <<ideal, ret, said, exOpen, redundantClose>> /\ UNCHANGED <<wsVars, signVars>>

\* StateDB.init: the script creates what is missing (state.py:29-32)
DbInit ==
    /\ pc["main"] \in {"start", "restarted"}
    /\ pc' = Upd(pc, "main", IF pc["main"] = "start" THEN "running" ELSE "running_again")
    /\ ledger' = InsertOrIgnore(stored, ledger)
    /\ eqref' = InsertOrIgnoreEq(stored, eqref)
    /\ stored' = TRUE
    /\ UNCHANGED <<exl, cal, res, budget, locked, waiters>>
    /\ dbQuiet

\* a task calls an operation and reaches the gate
DbCall(c) ==
    /\ Running
    /\ pc[c] = "idle"
    /\ budget > 0
    /\ budget' = budget - 1
    /\ \E op \in DbOps : \E a \in DbArgs(op) :
         /\ cal' = Upd(cal, c, [NoCal EXCEPT !.in = op])
         /\ exl' = Upd(exl, c, [NoLoc EXCEPT !.spot = a.spot, !.perp = a.perp, !.loan = a.loan])
    /\ IF GateFree
       THEN /\ locked' = TRUE
            /\ pc' = Upd(pc, c, "in")
            /\ UNCHANGED waiters
       ELSE /\ waiters' = Append(waiters, c)
            /\ pc' = Upd(pc, c, "queued")
            /\ UNCHANGED locked
    /\ res' = Upd(res, c, "none")
    /\ UNCHANGED <<ledger, eqref, stored>>
    /\ dbQuiet

\* the waiter that was woken takes the gate
DbResume(c) ==
    /\ pc[c] = "woken"
    /\ waiters' = Tail(waiters)
    /\ locked' = TRUE
    /\ pc' = Upd(pc, c, "in")
    /\ UNCHANGED <<ledger, eqref, stored, exl, cal, res, budget>>
    /\ dbQuiet

\* the statement: a select reads the committed row, an update stays pending
\* until the commit; the statement may fail
DbExec(c) ==
    /\ pc[c] = "in"
    /\ \E ok \in BOOLEAN :
         IF ~ok
         THEN /\ pc' = Upd(pc, c, "failed")
              /\ UNCHANGED exl
         ELSE /\ pc' = Upd(pc, c, "exec")
              /\ exl' = Upd(exl, c,
                   CASE cal[c].in = "get" -> Read(exl[c], "ok")
                     [] cal[c].in = "get_eq_ref" ->
                          [exl[c] EXCEPT !.spot = eqref.eq, !.perp = eqref.ts, !.out = "ok"]
                     [] OTHER -> exl[c])
    /\ UNCHANGED <<ledger, eqref, stored, cal, res, budget, locked, waiters>>
    /\ dbQuiet

\* state.py:45, 58  await db.commit()
DbCommit(c) ==
    /\ pc[c] = "exec"
    /\ cal[c].in \in DbWrites
    /\ pc' = Upd(pc, c, "committed")
    /\ IF cal[c].in = "save"
       THEN /\ ledger' = Row(exl[c].spot, exl[c].perp, exl[c].loan)
            /\ UNCHANGED eqref
       ELSE /\ eqref' = [eq |-> exl[c].spot, ts |-> exl[c].perp]
            /\ UNCHANGED ledger
    /\ UNCHANGED <<stored, exl, cal, res, budget, locked, waiters>>
    /\ dbQuiet

\* the end of the async with, reached by return or by an exception: the
\* connection is closed, the gate released and its first waiter woken
DbExit(c) ==
    /\ \/ pc[c] = "exec" /\ cal[c].in \notin DbWrites
       \/ pc[c] \in {"committed", "failed"}
    /\ locked' = FALSE
    /\ pc' = [d \in DOMAIN pc |->
                IF d = c THEN "idle"
                ELSE IF waiters # <<>> /\ d = Head(waiters) /\ pc[d] = "queued" THEN "woken"
                ELSE pc[d]]
    /\ res' = Upd(res, c, IF pc[c] = "failed" THEN "raise" ELSE "True")
    /\ exl' = Upd(exl, c, NoLoc)
    /\ cal' = Upd(cal, c, NoDbCal)
    /\ UNCHANGED <<ledger, eqref, stored, budget, waiters>>
    /\ dbQuiet

\* the process ends and is started again: the file stays, everything in
\* memory is new
DbRestart ==
    /\ Running
    /\ budget > 0
    /\ budget' = budget - 1
    /\ pc' = [d \in DOMAIN pc |-> IF d = "main" THEN "restarted" ELSE "idle"]
    /\ exl' = [d \in DOMAIN pc |-> NoLoc]
    /\ cal' = [d \in DOMAIN pc |-> NoDbCal]
    /\ res' = [d \in DOMAIN pc |-> "none"]
    /\ locked' = FALSE
    /\ waiters' = <<>>
    /\ UNCHANGED <<ledger, eqref, stored>>
    /\ dbQuiet

\* what the scheduler and the database do by themselves
DbStep(c) ==
    \/ DbResume(c)
    \/ DbExec(c)
    \/ DbCommit(c)
    \/ DbExit(c)

InitDbOn(has) ==
    /\ stored = has
    /\ ledger \in (IF has THEN {Row(2, 0 - 2, 2)} ELSE {NoRow})
    /\ eqref = (IF has THEN [eq |-> 0, ts |-> 0] ELSE NoEqRow)
    /\ ideal = ledger
    /\ pc = [d \in DbProcs |-> IF d = "main" THEN "start" ELSE "idle"]
    /\ ret = [d \in DbProcs |-> "none"]
    /\ exl = [d \in DbProcs |-> NoLoc]
    /\ cal = [d \in DbProcs |-> NoDbCal]
    /\ res = [d \in DbProcs |-> "none"]
    /\ said = [d \in DbProcs |-> ""]
    /\ budget = MaxDbEvents
    /\ exOpen = FALSE
    /\ redundantClose = FALSE
    /\ locked = FALSE
    /\ waiters = <<>>
    /\ SignIdle
    /\ WsIdle

InitDb == \E has \in BOOLEAN : InitDbOn(has)

NextDbRun ==
    \/ DbInit
    \/ \E c \in DbCallers : DbCall(c)
    \/ \E c \in DbCallers : DbStep(c)

NextDb ==
    \/ NextDbRun
    \/ DbRestart

\* the store across restarts
SpecDb == InitDb /\ [][NextDb]_vars

\* the store in one run of the process: the event loop resumes every
\* coroutine that can go on, and the database finishes every statement
SpecDbFair ==
    /\ InitDb
    /\ [][NextDbRun]_vars
    /\ WF_vars(DbInit)
    /\ \A c \in DbCallers : WF_vars(DbStep(c))

-----------------------------------------------------------------------------
(* Claims about the store *)

\* C22: at most one caller of get, save, get_eq_ref or save_eq_ref is inside
\* the critical section at a time, and only while the gate is held; every
\* triple a get has read is the default row or the triple of one save; and
\* every caller that waits for the gate gets it
C22_Serialized ==
    /\ [](Cardinality({c \in DbCallers : InSection(c)}) <= 1)
    /\ [](\A c \in DbCallers : InSection(c) => locked)
    /\ [](\A c \in DbCallers :
            (pc[c] = "exec" /\ cal[c].in = "get")
               => Row(exl[c].spot, exl[c].perp, exl[c].loan) \in SaveRows \cup {Row(0, 0, 0)})
    /\ \A c \in DbCallers : (pc[c] \in {"queued", "woken"}) ~> (pc[c] = "in")

\* a save is inside the critical section, its update not yet committed, while
\* a get and another save wait at the gate
C22_Witness ==
    \E c, d, e \in DbCallers :
        /\ pc[c] = "exec" /\ cal[c].in = "save"
        /\ pc[d] = "queued" /\ cal[d].in = "get"
        /\ pc[e] = "queued" /\ cal[e].in = "save"
        /\ waiters = <<d, e>>

\* C23: init on a file without the tables leaves the all-zero row, init on a
\* file that has them changes no row; a restart changes no row; the stored
\* triple changes only when a save commits, to that save's triple; and a get
\* reads the stored triple
C23_Persistence ==
    /\ [](\A c \in DbCallers :
            (pc[c] = "exec" /\ cal[c].in = "get")
               => Row(exl[c].spot, exl[c].perp, exl[c].loan) = ledger)
    /\ [][/\ (~Running /\ Running')
               => IF stored
                  THEN ledger' = ledger /\ eqref' = eqref
                  ELSE ledger' = Row(0, 0, 0)
          /\ (Running /\ ~Running')
               => ledger' = ledger /\ eqref' = eqref /\ stored' = stored
          /\ (ledger' # ledger /\ stored)
               => \E c \in DbCallers :
                    /\ pc[c] = "exec" /\ pc'[c] = "committed"
                    /\ cal[c].in = "save"
                    /\ ledger' = Row(exl[c].spot, exl[c].perp, exl[c].loan)]_vars

\* after a restart, with no save called in the new run, a get has read the
\* triple that a save of an earlier run committed
C23_Witness ==
    /\ pc["main"] = "running_again"
    /\ budget = MaxDbEvents - 3
    /\ ledger = Row(1, 0 - 1, 1)
    /\ \E c \in DbCallers :
         /\ pc[c] = "exec" /\ cal[c].in = "get"
         /\ Row(exl[c].spot, exl[c].perp, exl[c].loan) = Row(1, 0 - 1, 1)
         /\ \A d \in DbCallers \ {c} : pc[d] = "idle"

-----------------------------------------------------------------------------
(* The signer: _sign, and its two callers _headers and _ws_login *)

\* calls of _sign in one run
MaxSigns == 3
\* the clock runs up to this many milliseconds
MaxClock == 2

\* gateway.py:15-21  _timestamp: the clock as text
Timestamp(ms) == "T" \o ToString(ms) \o "Z"

\* gateway.py:29  prehash = f"{ts}{method}{path}{body}"
Prehash(ts, method, path, body) == ts \o method \o path \o body

\* hmac.new(key, msg, sha256).digest(): a value fixed by the key and the
\* message
HmacSha256(key, msg) == <<"hmac-sha256", key, msg>>

\* base64.b64encode(...).decode(): a value fixed by its argument
B64(digest) == <<"b64", digest>>

\* variant: a signer that stamps the prehash with the clock it reads itself
SignAtClock(ts, method, path, body, secret) ==
    B64(HmacSha256(secret, Prehash(Timestamp(clock), method, path, body)))

\* gateway.py:28-32  _sign
Sign(ts, method, path, body, secret) ==
    B64(HmacSha256(secret, Prehash(ts, method, path, body)))

\* the gateway's secret (gateway.py:47) and another one
Secrets == {"s1", "s2"}
ApiSecret == "s1"
\* REST requests: method, path with its query string, body
Requests == {<<"GET", "/api/v5/account/max-loan?ccy=USDT", "">>,
             <<"POST", "/api/v5/trade/order", "{}">>}
\* gateway.py:223  the login's method, path and body
LoginRequest == <<"GET", "/users/self/verify", "">>

\* one call of _sign: who called, the five inputs, the result
Signed(by, ts, rq, secret) ==
    [by |-> by, ts |-> ts, method |-> rq[1], path |-> rq[2], body |-> rq[3],
     secret |-> secret, at |-> clock,
     out |-> Sign(ts, rq[1], rq[2], rq[3], secret)]

signQuiet == UNCHANGED taskVars /\ UNCHANGED <<wsVars, dbVars>>

Tick ==
    /\ clock < MaxClock
    /\ clock' = clock + 1
    /\ UNCHANGED sigs
    /\ signQuiet

\* gateway.py:97-111  _headers: the signature of a REST request
HeadersSign ==
    /\ Cardinality(sigs) < MaxSigns
    /\ \E rq \in Requests :
         sigs' = sigs \cup {Signed("_headers", Timestamp(clock), rq, ApiSecret)}
    /\ UNCHANGED clock
    /\ signQuiet

\* gateway.py:218-231  _ws_login: the signature of the login frame
LoginSign ==
    /\ Cardinality(sigs) < MaxSigns
    /\ ~wsLogged
    /\ sigs' = sigs \cup {Signed("_ws_login", Timestamp(clock), LoginRequest, ApiSecret)}
    /\ UNCHANGED clock
    /\ signQuiet

\* _sign called with any inputs at any time
AnySign ==
    /\ Cardinality(sigs) < MaxSigns
    /\ \E ms \in 1..MaxClock, rq \in Requests \cup {LoginRequest}, secret \in Secrets :
         sigs' = sigs \cup {Signed("any", Timestamp(ms), rq, secret)}
    /\ UNCHANGED clock
    /\ signQuiet

InitSign == InitTasksOn({Row(0, 0, 0)}) /\ WsIdle

NextSign ==
    \/ Tick
    \/ HeadersSign
    \/ LoginSign
    \/ AnySign

SpecSign == InitSign /\ [][NextSign]_vars

\* the five inputs of a recorded call
SignInputs(s) == <<s.ts, s.method, s.path, s.body, s.secret>>

-----------------------------------------------------------------------------
(* Claims about the login, the recovery and the sharing of the socket *)

StreamMoved(c) == st'[c].pc # st[c].pc

\* the subscribe frame of stream c has gone out on the socket it holds
SubscribeSent(c) ==
    /\ st[c].pc = "sub_send"
    /\ st'[c].pc \notin {"sub_send", "raised"}

\* C25: the authenticated flag becomes true only when a login acknowledgment
\* with the success code is received, on every other outcome of the login it
\* keeps its value, and no subscribe frame is sent on a socket before a login
\* on that socket has succeeded.
C25_LoginGatesSubscription ==
    [][/\ (~wsLogged /\ wsLogged')
            => \E c \in Streams :
                 st[c].pc = "login_recv" /\ StreamMoved(c) /\ st[c].h \in acked'
       /\ \A c \in Streams :
            /\ (st[c].pc = "login_recv" /\ StreamMoved(c) /\ st[c].h \notin acked')
                  => wsLogged' = wsLogged
            /\ SubscribeSent(c) => st[c].h \in acked]_vars


\* stream c is between a failed receive and its re-subscribe
Recovering(c) ==
    /\ st[c].phase = "live"
    /\ st[c].pc \in {"close", "sleep", "connect", "login_send", "login_recv", "sub_send"}

\* C26: after a receive failure a stream closes the stale socket, clears the
\* authenticated flag, sleeps the backoff delay, opens a new socket, sends the
\* login frame and sends the subscribe frame, in this order, and yields no
\* message before the subscribe frame has been sent.
C26_RecoveryOrder ==
    [][\A c \in Streams :
         StreamMoved(c) =>
           /\ (st[c].pc = "recv" /\ st'[c].pc \notin {"recv", "yield"})
                 => IF ws # 0
                    THEN st'[c].pc = "close" /\ st'[c].h = ws
                    ELSE st'[c].pc = "sleep" /\ ~wsLogged'
           /\ (st[c].pc = "close")
                 => st'[c].pc = "sleep" /\ ws' = 0 /\ ~wsLogged'
                      /\ st[c].h \notin open'
           /\ (st[c].pc = "sleep")
                 => st'[c].pc = "connect" /\ st'[c].k = "ensure"
           /\ (Recovering(c) /\ st[c].pc = "connect" /\ st[c].k = "ensure")
                 => st'[c].pc \in {"login_send", "raised"}
           /\ (Recovering(c) /\ st'[c].pc = "sub_send")
                 => st[c].pc \in {"login_recv", "connect"} /\ st'[c].h \in open'
           /\ (Recovering(c) /\ st[c].pc = "connect" /\ st'[c].pc = "sub_send")
                 => st[c].k = "sub_send"
           /\ (st'[c].pc = "yield") => st[c].pc = "recv"
           /\ (Recovering(c) /\ st'[c].pc = "recv") => st[c].pc = "sub_send"]_vars


\* the streams whose websockets.connect is in progress (gateway.py:205)
Connecting == {c \in Streams : st[c].pc = "connect"}

\* C27: with the three stream consumers on one gateway at most one socket is
\* open or being opened, every open socket is the one the gateway refers to,
\* and the socket a consumer closes after a failed receive is the socket the
\* receive failed on, not one established since.
C27_SingleConnection ==
    /\ [](Cardinality(open) + Cardinality(Connecting) <= 1)
    /\ [](\A h \in open : h = ws)
    /\ [][\A c \in Streams :
            (st[c].pc = "recv" /\ st'[c].pc = "close") => st'[c].h = st[c].h]_vars


\* C28: whenever the authenticated flag is set the gateway holds a socket, and
\* a login was accepted on that socket.
C28_FlagOfCurrentSocket ==
    wsLogged => (ws # 0 /\ ws \in acked)


\* C29: no data frame pushed for a subscribed channel is read from the shared
\* socket and discarded: every such frame reaches the consumer of its channel.
C29_NoFrameLost ==
    dropped = {}


-----------------------------------------------------------------------------
(* Claims about the ledger's signs *)

-----------------------------------------------------------------------------
(* Claims about the rebalancer's cycles *)

\* the ledger as a monitor's completed unwind leaves it: close_all saved
\* perp_qty = 0, repay_all saved loan_usdt = 0, and spot is still held
Unwound == ledger.perp = 0 /\ ledger.loan = 0 /\ ledger.spot > 0

\* C31: once a monitor's unwind (close_all, then repay_all) has completed and
\* the ledger shows perp_qty = 0 with spot_qty > 0, no cycle of the rebalancer
\* calls short and no short order of the rebalancer is accepted
C31_UnwindNotUndone ==
    [][/\ (Unwound /\ pc["reb"] = "body" /\ Moved("reb"))
            => pc'["reb"] # "short_check"
       /\ (Unwound /\ pc["reb"] = "short_post" /\ Moved("reb"))
            => pc'["reb"] # "short_save"]_vars


\* C32: whenever a cycle reports the rebalance as complete (safe_rebalance
\* returned True and the ledger was read again), the ledger read again has
\* |spot + perp| / spot below 1% (0 is reported for spot = 0); on the
\* negative-imbalance path the short is re-established with the spot quantity
C32_SuccessMeansBalanced ==
    [][/\ (pc["reb"] = "reb_verify" /\ pc'["reb"] = "wait")
            => (ledger.spot > 0
                  => Abs(ledger.spot + ledger.perp) * 100 < REB_THR * ledger.spot)
       /\ (pc["reb"] = "sr_after_close" /\ pc'["reb"] = "short_check")
            => exl'["reb"].qty = ledger.spot]_vars


-----------------------------------------------------------------------------
(* Claims about the cold start *)

\* C33: after init_positions has completed a cold start without raising, the
\* ledger is delta-neutral and funded: spot_qty > 0, perp_qty = -spot_qty and
\* loan_usdt > 0, whatever the pre-checks of borrow, buy and short answered
C33_ColdStartNeutral ==
    cal["main"].in = "INIT_COMPLETE"
        => /\ ledger.spot > 0
           /\ ledger.perp = -ledger.spot
           /\ ledger.loan > 0


-----------------------------------------------------------------------------
(* Rebalancer.run alone: its cycles on any row its ledger read can return *)

\* rows read by a cycle: no spot holding (with and without a short), no
\* imbalance, an imbalance of 0.5%, of exactly 1% on either side, and above 1%
\* on either side
RebLedgers == {Row(0, 0, 0), Row(0, -1000, 500), Row(1000, -1000, 500),
               Row(1000, -995, 500), Row(1000, -990, 500), Row(1000, -1010, 500),
               Row(1000, -950, 500), Row(1000, -1100, 500)}

InitReb ==
    /\ DbIdle
    /\ ledger \in RebLedgers
    /\ ideal = ledger
    /\ pc = [t \in {"reb"} |-> "wait"]
    /\ ret = [t \in {"reb"} |-> "none"]
    /\ exl = [t \in {"reb"} |-> NoLoc]
    /\ cal = [t \in {"reb"} |-> NoCal]
    /\ res = [t \in {"reb"} |-> "none"]
    /\ said = [t \in {"reb"} |-> ""]
    /\ budget = MaxCycles
    /\ exOpen = (ledger.perp < 0)
    /\ redundantClose = FALSE
    /\ WsIdle

NextReb ==
    \/ Wake("reb")
    \/ RebCycle
    \/ SrGet
    \/ SrAfterClose
    \/ RebAfterShort
    \/ RebVerify
    \/ RebFailed
    \/ CloseAllGet("reb")
    \/ CloseAllPost("reb")
    \/ CloseAllSave("reb")
    \/ ShortCheck("reb")
    \/ ShortPost("reb")
    \/ ShortSave("reb")

SpecReb == InitReb /\ [][NextReb]_vars

\* C34: a cycle that reads spot_qty = 0, or |spot + perp| / spot not above 1%,
\* goes to its sleep without a call of an executor method, without a
\* feasibility read or an order on the exchange, and with the ledger as it was
C34_NoActionBelowThreshold ==
    [][/\ (/\ pc["reb"] = "body"
           /\ Moved("reb")
           /\ \/ ledger.spot = 0
              \/ Abs(ledger.spot + ledger.perp) * 100 <= REB_THR * ledger.spot)
            => /\ \/ pc'["reb"] = "wait"
                  \/ pc'["reb"] = "reb_failed" /\ said'["reb"] = "Rebalance loop error"
               /\ ret'["reb"] = "none"
               /\ exl'["reb"] = NoLoc
               /\ ledger' = ledger
               /\ exOpen' = exOpen
               /\ redundantClose' = redundantClose
       /\ (pc["reb"] = "reb_failed" /\ Moved("reb"))
            => /\ pc'["reb"] = "wait"
               /\ ledger' = ledger
               /\ exOpen' = exOpen]_vars

\* a cycle has read a ledger with no spot holding and an open short, and has
\* gone back to its sleep with nothing changed
C34_Witness ==
    /\ pc["reb"] = "wait"
    /\ budget = MaxCycles - 1
    /\ ledger = Row(0, -1000, 500)
    /\ exOpen
    /\ ~redundantClose


-----------------------------------------------------------------------------
(* Claims about the stream's filter *)

\* C35: every frame that ws_private_stream yields to its consumer is a data
\* frame of the stream's own channel: no frame of another channel, no event
\* frame (the answer to a login or to a subscribe, an error) and no text that
\* is not JSON is yielded; and a step in which a frame was received (the
\* failure count is back at 0) leaves the stream receiving or yielding on the
\* same socket, with no reconnect
C35_ChannelFilter ==
    /\ [](\A c \in Streams : st[c].pc = "yield" => st[c].got = "data")
    /\ [][\A c \in Streams :
            (st[c].pc = "recv" /\ st'[c] # st[c] /\ st'[c].fails = 0)
               => /\ st'[c].pc \in {"recv", "yield"}
                  /\ st'[c].h = st[c].h
                  /\ open' = open
                  /\ ws' = ws]_vars

=============================================================================
